---- MODULE Spec2Model ----
(***************************************************************************)
(* A model of RedRumRunner: the hex-grid engine (src/hex_grid.py) with its *)
(* cube-coordinate algebra (HexCoord), sparse grid (HexGrid) and A* search *)
(* (HexGrid.find_path); saving and loading (src/game-state.py); the state  *)
(* machine (src/state-machine.py), text input (src/input-system.py) and    *)
(* the calendar (src/calendar.py).                                         *)
(*                                                                         *)
(* The specifications of the module:                                       *)
(*   Spec         the grid as a state machine: set_cell, remove_cell and   *)
(*                find_path, the search advancing one loop iteration per   *)
(*                step;                                                    *)
(*   SpecCoord    the pure functions of HexCoord, applied to inputs drawn  *)
(*                from bounded sets, one call per step;                    *)
(*   SpecGrid     the grid's cell operations, create_rectangle, to_dict    *)
(*                and from_dict of what to_dict wrote;                     *)
(*   SpecDecode   HexCell.from_dict and HexGrid.from_dict on dictionaries  *)
(*                drawn from bounded sets, malformed ones included;        *)
(*   SpecHexagon  create_hexagon followed by find_path;                    *)
(*   SpecSave     save_game, load_game and the corruption of a save file;  *)
(*   SpecCost     the grid of Spec with cells of two movement costs;       *)
(*   SpecMachine  the construction of the state machine, add_state,        *)
(*                set_state and State.transition_to, a call per step;      *)
(*   SpecLifecycle  set_state statement by statement, between add_state    *)
(*                calls;                                                   *)
(*   SpecInput    set_mode, start_text_input and key presses;              *)
(*   SpecCalendar Calendar.advance and reset.                              *)
(***************************************************************************)
EXTENDS Integers, Sequences, FiniteSets, TLC

VARIABLES
    cells,        \* HexGrid.cells: HexCoord -> HexCell, a finite map
    grid_orientation,  \* HexGrid.orientation
    grid_hex_size,     \* HexGrid.hex_size
    grid_origin,       \* HexGrid.origin
    pc,           \* position of the caller: "idle", "search" (in find_path), "done"
    start,        \* find_path's argument start
    goal,         \* find_path's argument goal
    open_set,     \* find_path's local open_set
    closed_set,   \* find_path's local closed_set
    came_from,    \* find_path's local came_from
    g_score,      \* find_path's local g_score
    f_score,      \* find_path's local f_score
    path,         \* the value find_path returned
    call,         \* the last function applied: [op, args, result]
    files,        \* the saves directory: path -> contents of the file
    states,       \* StateMachine.states: state_name -> state instance
    current_state,        \* StateMachine.current_state
    state_machine,        \* State.state_machine of the instances that have one
    machine_pc,           \* position in StateMachine.set_state: 0 outside, else the statement next
    lifecycle,            \* the enter() and exit() calls made on states so far, in order
    current_mode,         \* InputHandler.current_mode
    text_input_buffer,    \* InputHandler.text_input_buffer
    text_input_callback,  \* InputHandler.text_input_callback
    calendar              \* the Calendar: [day, month, year, total_days]

\* the fields of the grid other than cells
layout == <<grid_orientation, grid_hex_size, grid_origin>>
\* the objects of the engine other than the grid
machinevars == <<states, current_state, state_machine, machine_pc, lifecycle>>
inputvars == <<current_mode, text_input_buffer, text_input_callback>>
appvars == <<files, machinevars, inputvars, calendar>>
gridvars == <<cells, pc, start, goal, open_set, closed_set, came_from, g_score, f_score, path,
              grid_orientation, grid_hex_size, grid_origin>>
vars == <<cells, pc, start, goal, open_set, closed_set, came_from, g_score, f_score, path, call,
          grid_orientation, grid_hex_size, grid_origin, files, states, current_state,
          state_machine, machine_pc, lifecycle, current_mode, text_input_buffer,
          text_input_callback, calendar>>

----------------------------------------------------------------------------
(* Bounds of the model. *)

\* largest movement_cost a stored cell gets (costs are 0..MaxCost)
MaxCost == 1
\* largest number of cells stored in the grid at once
MaxCells == 4
\* HexCoord inputs of SpecCoord lie within this hex distance of the origin
CoordRadius == 2
\* largest radius passed to get_range
MaxRadius == 2
\* integer arguments (components, offsets, scalars) range over -MaxInt..MaxInt
MaxInt == 2
\* directions passed to get_neighbor range over -MaxDirection..MaxDirection
MaxDirection == 7
\* hex sizes passed to to_pixel / from_pixel are 1..MaxSize
MaxSize == 2
\* pixel origins have components in -MaxOrigin..MaxOrigin
MaxOrigin == 1
\* cube_round is given fractions n / 2^e with n in -MaxNum..MaxNum ...
MaxNum == 3
\* ... and e in 0..MaxDenExp
MaxDenExp == 2

----------------------------------------------------------------------------
(* Helpers. *)

Abs(n) == IF n < 0 THEN -n ELSE n

Max(a, b) == IF a >= b THEN a ELSE b

Min(a, b) == IF a <= b THEN a ELSE b

\* the empty dict {}
EmptyMap == [k \in {} |-> 0]

\* d.setdefault(k, v) in place of d[k] = v
Put_setdefault(d, k, v) == [j \in DOMAIN d \cup {k} |-> IF j \in DOMAIN d THEN d[j] ELSE v]

\* d[k] = v on a dict
Put(d, k, v) == [j \in DOMAIN d \cup {k} |-> IF j = k THEN v ELSE d[j]]

\* del d[k]
Del(d, k) == [j \in DOMAIN d \ {k} |-> d[j]]

\* float('inf'), the default of g_score.get / f_score.get
Inf == 1000000

----------------------------------------------------------------------------
(* HexCoord: construction, arithmetic, distance, neighbours. *)

\* the ValueError raised by HexCoord.__init__
ValueError == [error |-> "ValueError"]

IsCoord(v) == DOMAIN v = {"x", "y", "z"}

\* HexCoord(x, y): z is derived
HexCoord2(x, y) == [x |-> x, y |-> y, z |-> -x - y]

\* HexCoord(x, y, z) without the validation
HexCoord_unchecked(x, y, z) == [x |-> x, y |-> y, z |-> z]

\* HexCoord(x, y, z): for integers abs(x + y + z) > 0.0001 is x + y + z # 0
HexCoord(x, y, z) ==
    IF Abs(x + y + z) > 0 THEN ValueError ELSE [x |-> x, y |-> y, z |-> z]

Origin == HexCoord(0, 0, 0)

add(self, other) == HexCoord(self.x + other.x, self.y + other.y, self.z + other.z)

sub(self, other) == HexCoord(self.x - other.x, self.y - other.y, self.z - other.z)

mul(self, scalar) == HexCoord(self.x * scalar, self.y * scalar, self.z * scalar)

distance(self, other) ==
    (Abs(self.x - other.x) + Abs(self.y - other.y) + Abs(self.z - other.z)) \div 2

directions ==
    << HexCoord(1, -1, 0), HexCoord(1, 0, -1), HexCoord(0, 1, -1),
       HexCoord(-1, 1, 0), HexCoord(-1, 0, 1), HexCoord(0, -1, 1) >>

get_neighbors(self) == [i \in 1..6 |-> add(self, directions[i])]

\* Python's % is non-negative for a positive modulus, as is TLA+'s
get_neighbor(self, direction) == add(self, directions[(direction % 6) + 1])

----------------------------------------------------------------------------
(* HexCoord: axial and offset conversions. *)

from_axial(q, r) ==
    LET x == q
        z == r
        y == -x - z
    IN  HexCoord(x, y, z)

to_axial(self) == <<self.x, self.z>>

\* n & 1 on a Python int is n mod 2, 0 or 1 also for negative n; // floors,
\* as \div does
from_offset(col, row, orientation) ==
    IF orientation = "POINTY_TOP"
    THEN LET x == col - ((row - (row % 2)) \div 2)
             z == row
             y == -x - z
         IN  HexCoord(x, y, z)
    ELSE LET x == col
             z == row - ((col - (col % 2)) \div 2)
             y == -x - z
         IN  HexCoord(x, y, z)

\* integer division that truncates toward zero, as C's / does
TruncDiv(a, b) == IF a >= 0 THEN a \div b ELSE -((-a) \div b)

\* to_offset with a remainder that takes the sign of its operand and a
\* division that truncates
to_offset_truncating(self, orientation) ==
    LET rem(n) == IF n >= 0 THEN n % 2 ELSE -((-n) % 2)
    IN  IF orientation = "POINTY_TOP"
        THEN <<self.x + TruncDiv(self.z - rem(self.z), 2), self.z>>
        ELSE <<self.x, self.z + TruncDiv(self.x - rem(self.x), 2)>>

to_offset(self, orientation) ==
    IF orientation = "POINTY_TOP"
    THEN LET col == self.x + ((self.z - (self.z % 2)) \div 2)
             row == self.z
         IN  <<col, row>>
    ELSE LET col == self.x
             row == self.z + ((self.x - (self.x % 2)) \div 2)
         IN  <<col, row>>

----------------------------------------------------------------------------
(* HexCoord.get_range. *)

\* the inner loop: for y in range(y, hi + 1)
RECURSIVE get_range_row(_, _, _, _)
get_range_row(self, x, y, hi) ==
    IF y > hi THEN <<>>
    ELSE <<HexCoord(self.x + x, self.y + y, self.z + (-x - y))>>
         \o get_range_row(self, x, y + 1, hi)

\* the outer loop: for x in range(x, last + 1)
RECURSIVE get_range_cols(_, _, _, _)
get_range_cols(self, radius, x, last) ==
    IF x > last THEN <<>>
    ELSE get_range_row(self, x, Max(-radius, -x - radius), Min(radius, -x + radius))
         \o get_range_cols(self, radius, x + 1, last)

\* get_range with range(-radius, radius) as the outer loop
get_range_exclusive(self, radius) == get_range_cols(self, radius, -radius, radius - 1)

get_range(self, radius) == get_range_cols(self, radius, -radius, radius)

----------------------------------------------------------------------------
(* HexCoord.linedraw and has_line_of_sight.                                *)
(*                                                                         *)
(* linedraw interpolates in floating point: step = 1.0 / N, t = step * i,  *)
(* self.x * (1 - t) + other.x * t.  The exact value at step i is           *)
(* (self.x * (N - i) + other.x * i) / N.  When N is a power of two every   *)
(* intermediate value is a binary fraction and the floating-point result   *)
(* is the exact value.  Otherwise step is inexact and the result lies      *)
(* within rounding error of the exact value: wherever the exact values tie *)
(* (a value half way between two integers, two equal rounding errors) the  *)
(* outcome depends on the sign of that error, and both outcomes are kept.  *)
(***************************************************************************)

RECURSIVE IsPowerOfTwo(_)
IsPowerOfTwo(n) == n = 1 \/ (n > 1 /\ n % 2 = 0 /\ IsPowerOfTwo(n \div 2))

\* round(num / den), den > 0: Python rounds a tie to the even integer
round(num, den, exact) ==
    LET q == num \div den
        r == num - q * den
    IN  IF 2 * r < den THEN {q}
        ELSE IF 2 * r > den THEN {q + 1}
        ELSE IF exact THEN {IF q % 2 = 0 THEN q ELSE q + 1}
        ELSE {q, q + 1}

\* a >= b on two rounding errors
ge(a, b, exact) ==
    IF a > b THEN {TRUE}
    ELSE IF a < b THEN {FALSE}
    ELSE IF exact THEN {TRUE} ELSE {TRUE, FALSE}

\* linedraw's rounding with the correction always made on z
linedraw_round_z(fx, fy, fz, N, exact) ==
    { HexCoord(x, y, -x - y) : x \in round(fx, N, exact), y \in round(fy, N, exact) }

\* linedraw's rounding of the point (fx / N, fy / N, fz / N): the three
\* round calls and the correction of the axis with the largest rounding
\* error, the coordinates it may give
linedraw_round(fx, fy, fz, N, exact) ==
    LET fixed(x, y, z) ==
            IF x + y + z = 0 THEN {HexCoord(x, y, z)}
            ELSE LET abs_dx == Abs(x * N - fx)
                     abs_dy == Abs(y * N - fy)
                     abs_dz == Abs(z * N - fz)
                 IN  { IF xy /\ xz THEN HexCoord(-y - z, y, z)
                       ELSE IF yz THEN HexCoord(x, -x - z, z)
                       ELSE HexCoord(x, y, -x - y) :
                       xy \in ge(abs_dx, abs_dy, exact),
                       xz \in ge(abs_dx, abs_dz, exact),
                       yz \in ge(abs_dy, abs_dz, exact) }
    IN  UNION { fixed(x, y, z) : x \in round(fx, N, exact),
                                 y \in round(fy, N, exact),
                                 z \in round(fz, N, exact) }

\* the body of linedraw's loop for one i: the coordinates it may append
linedraw_point(self, other, N, i) ==
    linedraw_round(self.x * (N - i) + other.x * i,
                   self.y * (N - i) + other.y * i,
                   self.z * (N - i) + other.z * i,
                   N, IsPowerOfTwo(N))

\* the loop for i in range(i, last + 1): the lists it may build
RECURSIVE linedraw_loop(_, _, _, _, _)
linedraw_loop(self, other, N, i, last) ==
    IF i > last THEN {<<>>}
    ELSE { <<p>> \o rest : p \in linedraw_point(self, other, N, i),
                           rest \in linedraw_loop(self, other, N, i + 1, last) }

\* linedraw with range(N) as its loop
linedraw_short(self, other) ==
    LET N == distance(self, other)
    IN  IF N = 0 THEN {<<self>>} ELSE linedraw_loop(self, other, N, 0, N - 1)

\* the lists self.linedraw(other) may return
linedraw(self, other) ==
    LET N == distance(self, other)
    IN  IF N = 0 THEN {<<self>>} ELSE linedraw_loop(self, other, N, 0, N)

\* has_line_of_sight scanning line[1:]
has_line_of_sight_to_end(line, blockers) ==
    LET inner == SubSeq(line, 2, Len(line))
    IN  \A i \in 1..Len(inner) : inner[i] \notin blockers

\* has_line_of_sight from the line its call of linedraw returned: the scan
\* of line[1:-1]
has_line_of_sight(line, blockers) ==
    LET inner == SubSeq(line, 2, Len(line) - 1)
    IN  \A i \in 1..Len(inner) : inner[i] \notin blockers

----------------------------------------------------------------------------
(* Pixel conversions and cube_round.                                       *)
(*                                                                         *)
(* The layout constants are multiples of sqrt(3) and of 1/2 and 1/3, so a  *)
(* pixel value is a number (a + b * sqrt(3)) / d with integers a, b and    *)
(* d > 0, written [a, b, d]; the arithmetic below is exact on them.        *)
(***************************************************************************)

Num(a, b, d) == [a |-> a, b |-> b, d |-> d]

NInt(n) == Num(n, 0, 1)

NAdd(p, q) == Num(p.a * q.d + q.a * p.d, p.b * q.d + q.b * p.d, p.d * q.d)

NNeg(p) == Num(-p.a, -p.b, p.d)

NSub(p, q) == NAdd(p, NNeg(q))

NMul(p, q) == Num(p.a * q.a + 3 * p.b * q.b, p.a * q.b + p.b * q.a, p.d * q.d)

\* p / n for an integer n > 0
NDiv(p, n) == Num(p.a, p.b, p.d * n)

\* the sign of a + b * sqrt(3): -1, 0 or 1
Sign(p) ==
    IF p.a = 0 /\ p.b = 0 THEN 0
    ELSE IF p.a >= 0 /\ p.b >= 0 THEN 1
    ELSE IF p.a <= 0 /\ p.b <= 0 THEN -1
    ELSE IF p.a > 0 THEN (IF p.a * p.a > 3 * p.b * p.b THEN 1 ELSE -1)
    ELSE (IF 3 * p.b * p.b > p.a * p.a THEN 1 ELSE -1)

NGreater(p, q) == Sign(NSub(p, q)) > 0

NAbs(p) == IF Sign(p) < 0 THEN NNeg(p) ELSE p

\* the largest integer not above p
NFloor(p) ==
    LET B == ((Abs(p.a) + 2 * Abs(p.b)) \div p.d) + 1
    IN  CHOOSE k \in (-B - 1)..B :
            /\ Sign(NSub(p, NInt(k))) >= 0
            /\ Sign(NSub(p, NInt(k + 1))) < 0

\* Python's round(p): the nearest integer, a tie going to the even one
NRound(p) ==
    LET k == NFloor(p)
        half == Sign(NSub(NAdd(NSub(p, NInt(k)), NSub(p, NInt(k))), NInt(1)))
    IN  IF half < 0 THEN k
        ELSE IF half > 0 THEN k + 1
        ELSE IF k % 2 = 0 THEN k ELSE k + 1

\* LayoutConstants: f0..f3, b0..b3 and start_angle
POINTY_TOP ==
    [f0 |-> Num(0, 1, 1), f1 |-> Num(0, 1, 2), f2 |-> NInt(0), f3 |-> Num(3, 0, 2),
     b0 |-> Num(0, 1, 3), b1 |-> Num(-1, 0, 3), b2 |-> NInt(0), b3 |-> Num(2, 0, 3),
     start_angle |-> Num(1, 0, 2)]

FLAT_TOP ==
    [f0 |-> Num(3, 0, 2), f1 |-> NInt(0), f2 |-> Num(0, 1, 2), f3 |-> Num(0, 1, 1),
     b0 |-> Num(2, 0, 3), b1 |-> NInt(0), b2 |-> Num(-1, 0, 3), b3 |-> Num(0, 1, 3),
     start_angle |-> NInt(0)]

HexOrientation == {"POINTY_TOP", "FLAT_TOP"}

\* size and the components of origin are integers here
to_pixel(self, orientation, size, origin) ==
    LET M == IF orientation = "POINTY_TOP" THEN POINTY_TOP ELSE FLAT_TOP
        x == NAdd(NMul(NAdd(NMul(M.f0, NInt(self.x)), NMul(M.f1, NInt(self.y))), NInt(size)),
                  NInt(origin[1]))
        y == NAdd(NMul(NAdd(NMul(M.f2, NInt(self.x)), NMul(M.f3, NInt(self.y))), NInt(size)),
                  NInt(origin[2]))
    IN  <<x, y>>

\* x, y and z are numbers
cube_round(x, y, z) ==
    LET rx == NRound(x)
        ry == NRound(y)
        rz == NRound(z)
        x_diff == NAbs(NSub(NInt(rx), x))
        y_diff == NAbs(NSub(NInt(ry), y))
        z_diff == NAbs(NSub(NInt(rz), z))
    IN  IF NGreater(x_diff, y_diff) /\ NGreater(x_diff, z_diff)
        THEN HexCoord(-ry - rz, ry, rz)
        ELSE IF NGreater(y_diff, z_diff)
        THEN HexCoord(rx, -rx - rz, rz)
        ELSE HexCoord(rx, ry, -rx - ry)

from_pixel(x, y, orientation, size, origin) ==
    LET M == IF orientation = "POINTY_TOP" THEN POINTY_TOP ELSE FLAT_TOP
        px == NDiv(NSub(x, NInt(origin[1])), size)
        py == NDiv(NSub(y, NInt(origin[2])), size)
        q == NAdd(NMul(M.b0, px), NMul(M.b1, py))
        r == NAdd(NMul(M.b2, px), NMul(M.b3, py))
    IN  cube_round(q, NSub(NNeg(q), r), r)

----------------------------------------------------------------------------
(* HexCell and HexGrid storage. *)

HexCell(terrain_type, movement_cost, blocks_sight, metadata) ==
    [terrain_type |-> terrain_type, movement_cost |-> movement_cost,
     blocks_sight |-> blocks_sight, metadata |-> metadata]

\* the coordinates the grid may hold cells at: the origin and its six neighbours
Universe == {Origin} \cup {get_neighbors(Origin)[i] : i \in 1..6}

Costs == 0..MaxCost

\* the cells set_cell is called with: default fields, one per movement cost
CellChoices == {HexCell("ocean", m, FALSE, EmptyMap) : m \in Costs}

\* Python's None
None == [none |-> TRUE]

get_cell(coord) == IF coord \in DOMAIN cells THEN cells[coord] ELSE None

is_in_bounds(coord) == coord \in DOMAIN cells

\* the locals of find_path do not outlive the call
NoSearch ==
    /\ pc' = "idle"
    /\ start' = Origin
    /\ goal' = Origin
    /\ open_set' = {}
    /\ closed_set' = {}
    /\ came_from' = EmptyMap
    /\ g_score' = EmptyMap
    /\ f_score' = EmptyMap
    /\ path' = <<>>

set_cell(coord, cell) ==
    /\ pc \in {"idle", "done"}
    /\ Cardinality(DOMAIN cells \cup {coord}) <= MaxCells
    /\ cells' = Put(cells, coord, cell)
    /\ NoSearch
    /\ UNCHANGED <<call, layout, appvars>>

remove_cell(coord) ==
    /\ pc \in {"idle", "done"}
    /\ cells' = IF coord \in DOMAIN cells THEN Del(cells, coord) ELSE cells
    /\ NoSearch
    /\ UNCHANGED <<call, layout, appvars>>

----------------------------------------------------------------------------
(* HexGrid.find_path: A* over the stored cells. *)

\* get_neighbors_for_pathfinding taking a cell of movement cost 0 for no cell
get_neighbors_for_pathfinding_costly(coord) ==
    LET stored == SelectSeq(get_neighbors(coord),
                            LAMBDA n : get_cell(n) # None /\ get_cell(n).movement_cost # 0)
    IN  [i \in 1..Len(stored) |-> <<stored[i], get_cell(stored[i]).movement_cost>>]

\* get_neighbors_for_pathfinding looking at five of the six directions
get_neighbors_for_pathfinding_five(coord) ==
    LET stored == SelectSeq(SubSeq(get_neighbors(coord), 1, 5), LAMBDA n : get_cell(n) # None)
    IN  [i \in 1..Len(stored) |-> <<stored[i], get_cell(stored[i]).movement_cost>>]

\* get_neighbors_for_pathfinding pairing a neighbour with the cost of coord's own cell
get_neighbors_for_pathfinding_leaving(coord) ==
    LET stored == SelectSeq(get_neighbors(coord), LAMBDA n : get_cell(n) # None)
        cost == IF get_cell(coord) # None THEN get_cell(coord).movement_cost ELSE 0
    IN  [i \in 1..Len(stored) |-> <<stored[i], cost>>]

\* (neighbor, movement_cost) for the neighbours that have a stored cell, in
\* direction order; a HexCell is always truthy, so "if cell" is "is stored"
get_neighbors_for_pathfinding(coord) ==
    LET stored == SelectSeq(get_neighbors(coord), LAMBDA n : get_cell(n) # None)
    IN  [i \in 1..Len(stored) |-> <<stored[i], get_cell(stored[i]).movement_cost>>]

\* d.get(k, float('inf'))
GetOrInf(d, k) == IF k \in DOMAIN d THEN d[k] ELSE Inf

\* RelaxOne without the test "if neighbor in closed_set: continue"
RelaxOne_reopening(s, current, neighbor, cost, closed, g) ==
    LET tentative_g_score == GetOrInf(s.g_score, current) + cost
    IN  IF neighbor \in s.open_set /\ tentative_g_score >= GetOrInf(s.g_score, neighbor)
        THEN s
        ELSE [open_set  |-> s.open_set \cup {neighbor},
              came_from |-> Put(s.came_from, neighbor, current),
              g_score   |-> Put(s.g_score, neighbor, tentative_g_score),
              f_score   |-> Put(s.f_score, neighbor, tentative_g_score + distance(neighbor, g))]

\* the body of "for neighbor, cost in ..." for one neighbour; s holds the
\* locals open_set, came_from, g_score, f_score
RelaxOne(s, current, neighbor, cost, closed, g) ==
    IF neighbor \in closed THEN s
    ELSE LET tentative_g_score == GetOrInf(s.g_score, current) + cost
         IN  IF neighbor \in s.open_set /\ tentative_g_score >= GetOrInf(s.g_score, neighbor)
             THEN s
             ELSE [open_set  |-> s.open_set \cup {neighbor},
                   came_from |-> Put(s.came_from, neighbor, current),
                   g_score   |-> Put(s.g_score, neighbor, tentative_g_score),
                   f_score   |-> Put(s.f_score, neighbor, tentative_g_score + distance(neighbor, g))]

\* the for loop over the neighbours nbrs[i..] of current
RECURSIVE Relax(_, _, _, _, _, _)
Relax(s, current, nbrs, i, closed, g) ==
    IF i > Len(nbrs) THEN s
    ELSE Relax(RelaxOne(s, current, nbrs[i][1], nbrs[i][2], closed, g),
               current, nbrs, i + 1, closed, g)

\* ReconstructPath without path.reverse()
RECURSIVE ReconstructPath_unreversed(_, _)
ReconstructPath_unreversed(cf, current) ==
    IF current \in DOMAIN cf
    THEN <<current>> \o ReconstructPath_unreversed(cf, cf[current])
    ELSE <<current>>

\* path = [current]; while current in came_from: ...; path.reverse()
RECURSIVE ReconstructPath(_, _)
ReconstructPath(cf, current) ==
    IF current \in DOMAIN cf
    THEN Append(ReconstructPath(cf, cf[current]), current)
    ELSE <<current>>

\* min replaced by a pop of any member of open_set
MinFScore_any(open, f) == open

\* the members of open_set min(open_set, key=f_score.get) may return: which
\* one of several with the least f_score depends on the set's iteration order
MinFScore(open, f) ==
    {h \in open : \A k \in open : GetOrInf(f, h) <= GetOrInf(f, k)}

\* find_path has no locals: before its first assignment, and after it returns
NoLocals ==
    /\ open_set' = {}
    /\ closed_set' = {}
    /\ came_from' = EmptyMap
    /\ g_score' = EmptyMap
    /\ f_score' = EmptyMap

\* find_path with its precondition dropped for the goal
find_path_start_only(s, g) ==
    /\ pc = "idle"
    /\ start' = s
    /\ goal' = g
    /\ IF ~is_in_bounds(s)
       THEN /\ pc' = "done"
            /\ path' = <<>>
            /\ NoLocals
       ELSE /\ pc' = "search"
            /\ path' = <<>>
            /\ open_set' = {s}
            /\ closed_set' = {}
            /\ came_from' = EmptyMap
            /\ g_score' = Put(EmptyMap, s, 0)
            /\ f_score' = Put(EmptyMap, s, distance(s, g))
    /\ UNCHANGED <<cells, call, layout, appvars>>

\* the call find_path(s, g) up to the first test of the while loop; a call
\* that follows another on an unchanged grid starts from the same grid, so
\* calls are made with no result pending
find_path(s, g) ==
    /\ pc = "idle"
    /\ start' = s
    /\ goal' = g
    /\ IF ~is_in_bounds(s) \/ ~is_in_bounds(g)
       THEN /\ pc' = "done"
            /\ path' = <<>>
            /\ NoLocals
       ELSE /\ pc' = "search"
            /\ path' = <<>>
            /\ open_set' = {s}
            /\ closed_set' = {}
            /\ came_from' = EmptyMap
            /\ g_score' = Put(EmptyMap, s, 0)
            /\ f_score' = Put(EmptyMap, s, distance(s, g))
    /\ UNCHANGED <<cells, call, layout, appvars>>

\* the while loop has ended: return []
find_path_fail ==
    /\ pc = "search"
    /\ open_set = {}
    /\ pc' = "done"
    /\ path' = <<>>
    /\ NoLocals
    /\ UNCHANGED <<cells, start, goal, call, layout, appvars>>

\* the popped node is the goal: return the reconstructed path
find_path_found ==
    /\ pc = "search"
    /\ goal \in MinFScore(open_set, f_score)
    /\ pc' = "done"
    /\ path' = ReconstructPath(came_from, goal)
    /\ NoLocals
    /\ UNCHANGED <<cells, start, goal, call, layout, appvars>>

\* one iteration of the while loop that expands current
find_path_expand ==
    /\ pc = "search"
    /\ \E current \in MinFScore(open_set, f_score) :
          /\ current # goal
          /\ LET closed == closed_set \cup {current}
                 s0 == [open_set |-> open_set \ {current}, came_from |-> came_from,
                        g_score |-> g_score, f_score |-> f_score]
                 s1 == Relax(s0, current, get_neighbors_for_pathfinding(current), 1, closed, goal)
             IN  /\ closed_set' = closed
                 /\ open_set' = s1.open_set
                 /\ came_from' = s1.came_from
                 /\ g_score' = s1.g_score
                 /\ f_score' = s1.f_score
    /\ UNCHANGED <<cells, pc, start, goal, path, call, layout, appvars>>

----------------------------------------------------------------------------
(* The grid as a state machine. *)

\* Calendar(day, month, year): total_days starts at 0
Calendar(day, month, year) == [day |-> day, month |-> month, year |-> year, total_days |-> 0]

NoCall == [op |-> "none"]

Init ==
    /\ cells = EmptyMap
    /\ pc = "idle"
    /\ start = Origin
    /\ goal = Origin
    /\ open_set = {}
    /\ closed_set = {}
    /\ came_from = EmptyMap
    /\ g_score = EmptyMap
    /\ f_score = EmptyMap
    /\ path = <<>>
    /\ call = NoCall
    /\ grid_orientation = "POINTY_TOP"
    /\ grid_hex_size = 10
    /\ grid_origin = <<0, 0>>
    /\ files = EmptyMap
    /\ states = EmptyMap
    /\ current_state = None
    /\ state_machine = EmptyMap
    /\ machine_pc = 0
    /\ lifecycle = <<>>
    /\ current_mode = "NORMAL"
    /\ text_input_buffer = <<>>
    /\ text_input_callback = None
    /\ calendar = Calendar(1, 1, 1)

Next ==
    \/ \E coord \in Universe, cell \in CellChoices : set_cell(coord, cell)
    \/ \E coord \in Universe : remove_cell(coord)
    \/ \E s \in Universe, g \in Universe : find_path(s, g)
    \/ find_path_fail
    \/ find_path_found
    \/ find_path_expand

Spec == Init /\ [][Next]_vars

----------------------------------------------------------------------------
(* The grid with cells of movement cost 1 and MaxStepCost: routes of equal *)
(* length and of different cost.                                           *)

\* the larger of the two movement costs
MaxStepCost == 3

CostlyCells == {HexCell("ocean", m, FALSE, EmptyMap) : m \in {1, MaxStepCost}}

NextCost ==
    \/ \E coord \in Universe, cell \in CostlyCells : set_cell(coord, cell)
    \/ \E coord \in Universe : remove_cell(coord)
    \/ \E s \in Universe, g \in Universe : find_path(s, g)
    \/ find_path_fail
    \/ find_path_found
    \/ find_path_expand

SpecCost == Init /\ [][NextCost]_vars

----------------------------------------------------------------------------
(* The functions of HexCoord, one call per behaviour: a step applies one   *)
(* function to arguments drawn from the bounded sets below and records the *)
(* arguments and the value returned in call.                               *)
(***************************************************************************)

Ints == -MaxInt..MaxInt

\* the coordinates within CoordRadius of the origin
Coords ==
    {c \in {HexCoord2(x, y) : x \in -CoordRadius..CoordRadius, y \in -CoordRadius..CoordRadius} :
        distance(Origin, c) <= CoordRadius}

Sizes == 1..MaxSize

Origins == (-MaxOrigin..MaxOrigin) \X (-MaxOrigin..MaxOrigin)

RECURSIVE Pow2(_)
Pow2(e) == IF e = 0 THEN 1 ELSE 2 * Pow2(e - 1)

\* the blocker sets tried for a line from a to b: nothing or one coordinate,
\* with or without the two endpoints
BlockerSets(a, b) ==
    {B \cup E : B \in {{}} \cup {{c} : c \in Coords}, E \in {{}, {a, b}}}

\* a call is made once, from the state in which nothing has been called
Ready == call.op = "none"

Call_HexCoord ==
    /\ Ready
    /\ \E x \in Ints, y \in Ints, z \in Ints :
        call' = [op |-> "HexCoord", x |-> x, y |-> y, z |-> z, result |-> HexCoord(x, y, z)]
    /\ UNCHANGED <<gridvars, appvars>>

Call_HexCoord2 ==
    /\ Ready
    /\ \E x \in Ints, y \in Ints :
        call' = [op |-> "HexCoord2", x |-> x, y |-> y, result |-> HexCoord2(x, y)]
    /\ UNCHANGED <<gridvars, appvars>>

Call_from_axial ==
    /\ Ready
    /\ \E q \in Ints, r \in Ints :
        call' = [op |-> "from_axial", q |-> q, r |-> r, result |-> from_axial(q, r)]
    /\ UNCHANGED <<gridvars, appvars>>

Call_to_axial ==
    /\ Ready
    /\ \E c \in Coords :
        call' = [op |-> "to_axial", self |-> c, result |-> to_axial(c)]
    /\ UNCHANGED <<gridvars, appvars>>

Call_from_offset ==
    /\ Ready
    /\ \E col \in Ints, row \in Ints, o \in HexOrientation :
        call' = [op |-> "from_offset", col |-> col, row |-> row, orientation |-> o,
                 result |-> from_offset(col, row, o)]
    /\ UNCHANGED <<gridvars, appvars>>

Call_to_offset ==
    /\ Ready
    /\ \E c \in Coords, o \in HexOrientation :
        call' = [op |-> "to_offset", self |-> c, orientation |-> o, result |-> to_offset(c, o)]
    /\ UNCHANGED <<gridvars, appvars>>

Call_add ==
    /\ Ready
    /\ \E a \in Coords, b \in Coords :
        call' = [op |-> "add", self |-> a, other |-> b, result |-> add(a, b)]
    /\ UNCHANGED <<gridvars, appvars>>

Call_sub ==
    /\ Ready
    /\ \E a \in Coords, b \in Coords :
        call' = [op |-> "sub", self |-> a, other |-> b, result |-> sub(a, b)]
    /\ UNCHANGED <<gridvars, appvars>>

Call_mul ==
    /\ Ready
    /\ \E a \in Coords, k \in Ints :
        call' = [op |-> "mul", self |-> a, scalar |-> k, result |-> mul(a, k)]
    /\ UNCHANGED <<gridvars, appvars>>

Call_get_neighbors ==
    /\ Ready
    /\ \E c \in Coords :
        call' = [op |-> "get_neighbors", self |-> c, result |-> get_neighbors(c)]
    /\ UNCHANGED <<gridvars, appvars>>

Call_get_neighbor ==
    /\ Ready
    /\ \E c \in Coords, d \in -MaxDirection..MaxDirection :
        call' = [op |-> "get_neighbor", self |-> c, direction |-> d, result |-> get_neighbor(c, d)]
    /\ UNCHANGED <<gridvars, appvars>>

Call_get_range ==
    /\ Ready
    /\ \E c \in Coords, radius \in 0..MaxRadius :
        call' = [op |-> "get_range", self |-> c, radius |-> radius, result |-> get_range(c, radius)]
    /\ UNCHANGED <<gridvars, appvars>>

Call_linedraw ==
    /\ Ready
    /\ \E a \in Coords, b \in Coords :
        \E line \in linedraw(a, b) :
            call' = [op |-> "linedraw", self |-> a, other |-> b, result |-> line]
    /\ UNCHANGED <<gridvars, appvars>>

Call_has_line_of_sight ==
    /\ Ready
    /\ \E a \in Coords, b \in Coords :
        \E blockers \in BlockerSets(a, b), line \in linedraw(a, b) :
            call' = [op |-> "has_line_of_sight", self |-> a, other |-> b, blockers |-> blockers,
                     line |-> line, result |-> has_line_of_sight(line, blockers)]
    /\ UNCHANGED <<gridvars, appvars>>

Call_to_pixel ==
    /\ Ready
    /\ \E c \in Coords, o \in HexOrientation, size \in Sizes, origin \in Origins :
        call' = [op |-> "to_pixel", self |-> c, orientation |-> o, size |-> size,
                 origin |-> origin, result |-> to_pixel(c, o, size, origin)]
    /\ UNCHANGED <<gridvars, appvars>>

\* from_pixel on the pixel position to_pixel gives for a coordinate
Call_from_pixel ==
    /\ Ready
    /\ \E c \in Coords, o \in HexOrientation, size \in Sizes, origin \in Origins :
        LET p == to_pixel(c, o, size, origin)
        IN  call' = [op |-> "from_pixel", self |-> c, x |-> p[1], y |-> p[2], orientation |-> o,
                     size |-> size, origin |-> origin,
                     result |-> from_pixel(p[1], p[2], o, size, origin)]
    /\ UNCHANGED <<gridvars, appvars>>

Call_cube_round ==
    /\ Ready
    /\ \E nx \in -MaxNum..MaxNum, ny \in -MaxNum..MaxNum, nz \in -MaxNum..MaxNum, e \in 0..MaxDenExp :
        LET x == Num(nx, 0, Pow2(e))
            y == Num(ny, 0, Pow2(e))
            z == Num(nz, 0, Pow2(e))
        IN  call' = [op |-> "cube_round", x |-> x, y |-> y, z |-> z, result |-> cube_round(x, y, z)]
    /\ UNCHANGED <<gridvars, appvars>>

\* the coordinates lines of sight are taken between: within LineRadius of
\* the origin
LineRadius == 3

LineCoords ==
    {c \in {HexCoord2(x, y) : x \in -LineRadius..LineRadius, y \in -LineRadius..LineRadius} :
        distance(Origin, c) <= LineRadius}

\* a.has_line_of_sight(b, blockers) and b.has_line_of_sight(a, blockers)
Call_has_line_of_sight_both ==
    /\ Ready
    /\ \E a \in LineCoords, b \in LineCoords :
        \E blockers \in {{}} \cup {{c} : c \in LineCoords},
           line \in linedraw(a, b), back \in linedraw(b, a) :
            call' = [op |-> "has_line_of_sight_both", self |-> a, other |-> b,
                     blockers |-> blockers, line |-> line, back |-> back,
                     result |-> has_line_of_sight(line, blockers),
                     result_back |-> has_line_of_sight(back, blockers)]
    /\ UNCHANGED <<gridvars, appvars>>

\* cube_round and linedraw's rounding step on one fractional cube point
\* (nx / d, ny / d, -(nx + ny) / d), d a power of two: a point floating
\* point holds exactly
Call_rounding ==
    /\ Ready
    /\ \E nx \in -MaxNum..MaxNum, ny \in -MaxNum..MaxNum, e \in 0..MaxDenExp :
        LET d == Pow2(e)
            nz == -nx - ny
        IN  call' = [op |-> "rounding", x |-> Num(nx, 0, d), y |-> Num(ny, 0, d),
                     z |-> Num(nz, 0, d),
                     cube_round |-> cube_round(Num(nx, 0, d), Num(ny, 0, d), Num(nz, 0, d)),
                     linedraw |-> linedraw_round(nx, ny, nz, d, TRUE)]
    /\ UNCHANGED <<gridvars, appvars>>

NextCoord ==
    \/ Call_HexCoord
    \/ Call_HexCoord2
    \/ Call_from_axial
    \/ Call_to_axial
    \/ Call_from_offset
    \/ Call_to_offset
    \/ Call_add
    \/ Call_sub
    \/ Call_mul
    \/ Call_get_neighbors
    \/ Call_get_neighbor
    \/ Call_get_range
    \/ Call_linedraw
    \/ Call_has_line_of_sight
    \/ Call_has_line_of_sight_both
    \/ Call_to_pixel
    \/ Call_from_pixel
    \/ Call_cube_round
    \/ Call_rounding

SpecCoord == Init /\ [][NextCoord]_vars

----------------------------------------------------------------------------
(* Serialization: HexCell.to_dict / from_dict, HexGrid.to_dict / from_dict. *)
(* A str is a sequence of one-character strings; a dict with string keys   *)
(* is a function whose domain holds the keys present; the dict under       *)
(* "cells" is the sequence of its (key, value) items in iteration order.   *)

\* the most cells of a grid to_dict is applied to
MaxDictCells == 3
\* the most items of a "cells" dict from_dict is applied to
MaxItems == 2

Digits == <<"0", "1", "2", "3", "4", "5", "6", "7", "8", "9">>

\* str(n) for n >= 0
RECURSIVE str_nat(_)
str_nat(n) ==
    IF n < 10 THEN <<Digits[n + 1]>> ELSE Append(str_nat(n \div 10), Digits[(n % 10) + 1])

\* str(n) dropping the sign
str_unsigned(n) == str_nat(Abs(n))

\* str(n), what an f-string writes for an int
str(n) == IF n < 0 THEN <<"-">> \o str_nat(-n) ELSE str_nat(n)

\* f"{coord.x},{coord.y},{coord.z}"
coord_key(coord) == str(coord.x) \o <<",">> \o str(coord.y) \o <<",">> \o str(coord.z)

\* s.split(sep): the pieces of s between the occurrences of sep, empty ones kept
RECURSIVE split(_, _)
split(s, sep) ==
    IF \A i \in 1..Len(s) : s[i] # sep THEN <<s>>
    ELSE LET i == CHOOSE j \in 1..Len(s) : s[j] = sep /\ \A k \in 1..(j - 1) : s[k] # sep
         IN  <<SubSeq(s, 1, i - 1)>> \o split(SubSeq(s, i + 1, Len(s)), sep)

\* s.strip() for the blank " "
RECURSIVE strip(_)
strip(s) ==
    IF s = <<>> THEN s
    ELSE IF s[1] = " " THEN strip(Tail(s))
    ELSE IF s[Len(s)] = " " THEN strip(SubSeq(s, 1, Len(s) - 1))
    ELSE s

DigitValue(c) == CHOOSE d \in 0..9 : Digits[d + 1] = c

\* the number a non-empty sequence of digits writes
RECURSIVE nat_of(_)
nat_of(ds) ==
    IF Len(ds) = 1 THEN DigitValue(ds[1])
    ELSE 10 * nat_of(SubSeq(ds, 1, Len(ds) - 1)) + DigitValue(ds[Len(ds)])

IsDigits(ds) == ds # <<>> /\ \A i \in 1..Len(ds) : \E d \in 1..10 : Digits[d] = ds[i]

\* the strings int() accepts: blanks around, one optional sign, then digits
\* (underscores between digits are not among the characters used here)
IsIntLiteral(s) ==
    LET t == strip(s)
    IN  IsDigits(IF t # <<>> /\ t[1] \in {"-", "+"} THEN Tail(t) ELSE t)

\* int(s); anything but an integer literal is a ValueError
int(s) ==
    LET t == strip(s)
    IN  IF ~IsIntLiteral(s) THEN ValueError
        ELSE IF t[1] = "-" THEN -nat_of(Tail(t))
        ELSE IF t[1] = "+" THEN nat_of(Tail(t))
        ELSE nat_of(t)

\* HexCell.to_dict
HexCell_to_dict(self) ==
    [terrain_type |-> self.terrain_type, movement_cost |-> self.movement_cost,
     blocks_sight |-> self.blocks_sight, metadata |-> self.metadata]

\* data.get(key, default)
Get(data, key, default) == IF key \in DOMAIN data THEN data[key] ELSE default

\* HexCell.from_dict with blocks_sight defaulting to True
HexCell_from_dict_blocking(data) ==
    HexCell(Get(data, "terrain_type", "ocean"), Get(data, "movement_cost", 1),
            Get(data, "blocks_sight", TRUE), Get(data, "metadata", EmptyMap))

\* HexCell.from_dict
HexCell_from_dict(data) ==
    HexCell(Get(data, "terrain_type", "ocean"), Get(data, "movement_cost", 1),
            Get(data, "blocks_sight", FALSE), Get(data, "metadata", EmptyMap))

\* HexOrientation.X.value
HexOrientation_value(o) == IF o = "POINTY_TOP" THEN 0 ELSE 1

\* HexOrientation(value): the member with that value, or a ValueError
HexOrientation_of(value) ==
    IF value = 0 THEN "POINTY_TOP" ELSE IF value = 1 THEN "FLAT_TOP" ELSE ValueError

\* a HexGrid as a value: its four fields
HexGrid(o, size, org, cs) == [orientation |-> o, hex_size |-> size, origin |-> org, cells |-> cs]

\* the orders a dict may list its keys in: all of them, each key once
Orders(d) ==
    {ks \in [1..Cardinality(DOMAIN d) -> DOMAIN d] : \A i, j \in DOMAIN ks : i # j => ks[i] # ks[j]}

\* HexGrid.to_dict of the grid self, whose cells dict iterates in the order keys
to_dict(self, keys) ==
    [orientation |-> HexOrientation_value(self.orientation),
     hex_size    |-> self.hex_size,
     origin      |-> self.origin,
     cells       |-> [i \in 1..Len(keys) |->
                        <<coord_key(keys[i]), HexCell_to_dict(self.cells[keys[i]])>>]]

\* x, y, z = map(int, coord_str.split(",")); coord = HexCoord(x, y, z)
parse_coord(coord_str) ==
    LET parts == split(coord_str, ",")
    IN  IF Len(parts) # 3 \/ \E i \in 1..Len(parts) : ~IsIntLiteral(parts[i])
        THEN ValueError
        ELSE HexCoord(int(parts[1]), int(parts[2]), int(parts[3]))

\* from_dict_loop skipping the keys it cannot parse
RECURSIVE from_dict_loop_skipping(_, _, _)
from_dict_loop_skipping(cells_dict, i, grid) ==
    IF i > Len(cells_dict) THEN grid
    ELSE LET coord == parse_coord(cells_dict[i][1])
             cell == HexCell_from_dict(cells_dict[i][2])
         IN  IF coord = ValueError THEN from_dict_loop_skipping(cells_dict, i + 1, grid)
             ELSE from_dict_loop_skipping(cells_dict, i + 1,
                                          [grid EXCEPT !.cells = Put(grid.cells, coord, cell)])

\* the loop of from_dict over the items i.. of cells_dict, grid being the
\* grid filled so far; an exception ends the loop and the call
RECURSIVE from_dict_loop(_, _, _)
from_dict_loop(cells_dict, i, grid) ==
    IF i > Len(cells_dict) THEN grid
    ELSE LET coord == parse_coord(cells_dict[i][1])
             cell == HexCell_from_dict(cells_dict[i][2])
         IN  IF coord = ValueError THEN ValueError
             ELSE from_dict_loop(cells_dict, i + 1,
                                 [grid EXCEPT !.cells = Put(grid.cells, coord, cell)])

\* HexGrid.from_dict: the grid built, or the ValueError that ended the call
from_dict(data) ==
    LET value == Get(data, "orientation", HexOrientation_value("POINTY_TOP"))
    IN  IF value \notin {0, 1} THEN ValueError
        ELSE from_dict_loop(Get(data, "cells", <<>>), 1,
                            HexGrid(HexOrientation_of(value), Get(data, "hex_size", 10),
                                    Get(data, "origin", <<0, 0>>), EmptyMap))

----------------------------------------------------------------------------
(* The grid's storage and utility methods as a state machine: set_cell,    *)
(* remove_cell, get_cell, is_in_bounds, create_rectangle, to_dict and      *)
(* from_dict of its result. Each step records the call in call.            *)

\* create_rectangle is called with width in 0..MaxWidth ...
MaxWidth == 3
\* ... and height in 0..MaxHeight
MaxHeight == 2

\* find_path's arguments, position and locals
searchvars == <<pc, start, goal, open_set, closed_set, came_from, g_score, f_score, path>>

\* the grid as a value
Self == HexGrid(grid_orientation, grid_hex_size, grid_origin, cells)

\* the coordinates set_cell and remove_cell are called with: two that
\* create_rectangle fills (one of them only at width 3) and one it never fills
GridCoords == {Origin, HexCoord(2, -1, -1), HexCoord(-1, 1, 0)}

\* the cells set_cell is called with: the default cell and one differing in every field
GridCells ==
    {HexCell("ocean", 1, FALSE, EmptyMap), HexCell("reef", 2, TRUE, [k \in {"depth"} |-> 3])}

\* the terrain create_rectangle is called with: not the default of HexCell, so
\* that a cell it stores differs from a cell stored before
Terrains == {"land"}

\* the arguments HexGrid(...) is constructed with
GridLayouts == {<<"POINTY_TOP", 10, <<0, 0>>>>, <<"FLAT_TOP", 2, <<1, -1>>>>}

\* for r in range(lo, hi): set_cell(from_axial(q, r), HexCell(terrain_type))
RECURSIVE create_rectangle_rows(_, _, _, _, _)
create_rectangle_rows(cs, q, r, hi, terrain_type) ==
    IF r >= hi THEN cs
    ELSE create_rectangle_rows(Put(cs, from_axial(q, r), HexCell(terrain_type, 1, FALSE, EmptyMap)),
                               q, r + 1, hi, terrain_type)

\* create_rectangle whose rows all start at r = 0
RECURSIVE create_rectangle_cols_straight(_, _, _, _, _)
create_rectangle_cols_straight(cs, q, width, height, terrain_type) ==
    IF q >= width THEN cs
    ELSE create_rectangle_cols_straight(create_rectangle_rows(cs, q, 0, height, terrain_type),
                                        q + 1, width, height, terrain_type)

\* create_rectangle shifting the odd columns: q_offset = (q + 1) // 2
RECURSIVE create_rectangle_cols_even(_, _, _, _, _)
create_rectangle_cols_even(cs, q, width, height, terrain_type) ==
    IF q >= width THEN cs
    ELSE LET q_offset == (q + 1) \div 2
         IN  create_rectangle_cols_even(
                 create_rectangle_rows(cs, q, -q_offset, height - q_offset, terrain_type),
                 q + 1, width, height, terrain_type)

\* for q in range(width): q_offset = q // 2; the inner loop
RECURSIVE create_rectangle_cols(_, _, _, _, _)
create_rectangle_cols(cs, q, width, height, terrain_type) ==
    IF q >= width THEN cs
    ELSE LET q_offset == q \div 2
         IN  create_rectangle_cols(
                 create_rectangle_rows(cs, q, -q_offset, height - q_offset, terrain_type),
                 q + 1, width, height, terrain_type)

InitGrid ==
    /\ cells = EmptyMap
    /\ \E l \in GridLayouts :
          /\ grid_orientation = l[1]
          /\ grid_hex_size = l[2]
          /\ grid_origin = l[3]
    /\ pc = "idle"
    /\ start = Origin
    /\ goal = Origin
    /\ open_set = {}
    /\ closed_set = {}
    /\ came_from = EmptyMap
    /\ g_score = EmptyMap
    /\ f_score = EmptyMap
    /\ path = <<>>
    /\ call = NoCall
    /\ files = EmptyMap
    /\ states = EmptyMap
    /\ current_state = None
    /\ state_machine = EmptyMap
    /\ machine_pc = 0
    /\ lifecycle = <<>>
    /\ current_mode = "NORMAL"
    /\ text_input_buffer = <<>>
    /\ text_input_callback = None
    /\ calendar = Calendar(1, 1, 1)

HexGrid_set_cell ==
    \E coord \in GridCoords, cell \in GridCells :
        /\ cells' = Put(cells, coord, cell)
        /\ call' = [op |-> "set_cell", coord |-> coord, cell |-> cell]
        /\ UNCHANGED <<layout, searchvars, appvars>>

HexGrid_remove_cell ==
    \E coord \in GridCoords :
        /\ cells' = IF coord \in DOMAIN cells THEN Del(cells, coord) ELSE cells
        /\ call' = [op |-> "remove_cell", coord |-> coord, result |-> None]
        /\ UNCHANGED <<layout, searchvars, appvars>>

HexGrid_get_cell ==
    \E coord \in GridCoords :
        /\ call' = [op |-> "get_cell", coord |-> coord, result |-> get_cell(coord)]
        /\ UNCHANGED <<cells, layout, searchvars, appvars>>

HexGrid_is_in_bounds ==
    \E coord \in GridCoords :
        /\ call' = [op |-> "is_in_bounds", coord |-> coord, result |-> is_in_bounds(coord)]
        /\ UNCHANGED <<cells, layout, searchvars, appvars>>

create_rectangle ==
    \E width \in 0..MaxWidth, height \in 0..MaxHeight, terrain_type \in Terrains :
        /\ cells' = create_rectangle_cols(cells, 0, width, height, terrain_type)
        /\ call' = [op |-> "create_rectangle", width |-> width, height |-> height,
                    terrain_type |-> terrain_type]
        /\ UNCHANGED <<layout, searchvars, appvars>>

\* to_dict on a grid of at most MaxDictCells cells
HexGrid_to_dict ==
    /\ Cardinality(DOMAIN cells) <= MaxDictCells
    /\ \E keys \in Orders(cells) :
          call' = [op |-> "to_dict", result |-> to_dict(Self, keys)]
    /\ UNCHANGED <<cells, layout, searchvars, appvars>>

\* HexGrid.from_dict(g.to_dict())
HexGrid_from_dict ==
    /\ call.op = "to_dict"
    /\ call' = [op |-> "from_dict", data |-> call.result, result |-> from_dict(call.result)]
    /\ UNCHANGED <<cells, layout, searchvars, appvars>>

NextGrid ==
    \/ HexGrid_set_cell
    \/ HexGrid_remove_cell
    \/ HexGrid_get_cell
    \/ HexGrid_is_in_bounds
    \/ create_rectangle
    \/ HexGrid_to_dict
    \/ HexGrid_from_dict

SpecGrid == InitGrid /\ [][NextGrid]_vars

----------------------------------------------------------------------------
(* HexCell.from_dict and HexGrid.from_dict applied to structured data drawn *)
(* from bounded sets, one call per behaviour.                               *)

\* a cell dict with every field present, none at its default
FullCellData == HexCell_to_dict(HexCell("reef", 2, TRUE, [k \in {"depth"} |-> 3]))

\* the cell dicts: every subset of the four fields
CellDataChoices == {[k \in S |-> FullCellData[k]] : S \in SUBSET DOMAIN FullCellData}

\* the keys of a "cells" dict: "0,0,0", "1,-1,0", " 1,-1,+0" (the same
\* coordinate as the one before), and the malformed "1,-1", "0,0,0,0",
\* "a,0,0", and "1,1,1" (three integers that are no coordinate)
KeyChoices ==
    {coord_key(Origin), coord_key(HexCoord(1, -1, 0)),
     <<" ", "1", ",", "-", "1", ",", "+", "0">>,
     <<"1", ",", "-", "1">>,
     <<"0", ",", "0", ",", "0", ",", "0">>,
     <<"a", ",", "0", ",", "0">>,
     <<"1", ",", "1", ",", "1">>}

\* the values under those keys: a full cell dict and a partial one
ItemData == {FullCellData, [k \in {"terrain_type", "blocks_sight"} |-> FullCellData[k]]}

\* the "cells" dicts: up to MaxItems items under distinct keys
ItemSeqs ==
    {s \in UNION {[1..n -> KeyChoices \X ItemData] : n \in 0..MaxItems} :
        \A i, j \in DOMAIN s : i # j => s[i][1] # s[j][1]}

\* the fields of a grid dict other than "cells", none at its default
LayoutData == [orientation |-> 1, hex_size |-> 2, origin |-> <<1, -1>>]

Call_HexCell_from_dict ==
    /\ Ready
    /\ \E data \in CellDataChoices :
          call' = [op |-> "HexCell.from_dict", data |-> data, result |-> HexCell_from_dict(data)]
    /\ UNCHANGED <<gridvars, appvars>>

\* from_dict of a dict holding any of the four fields
Call_HexGrid_from_dict ==
    /\ Ready
    /\ \E present \in SUBSET {"orientation", "hex_size", "origin", "cells"}, items \in ItemSeqs :
          /\ "cells" \notin present => items = <<>>
          /\ LET data == [k \in present |-> IF k = "cells" THEN items ELSE LayoutData[k]]
             IN  call' = [op |-> "HexGrid.from_dict", data |-> data, result |-> from_dict(data)]
    /\ UNCHANGED <<gridvars, appvars>>

NextDecode ==
    \/ Call_HexCell_from_dict
    \/ Call_HexGrid_from_dict

SpecDecode == Init /\ [][NextDecode]_vars

----------------------------------------------------------------------------
(* find_path on the grid create_hexagon fills.                             *)

\* create_hexagon is called with radius in 0..MaxHexRadius
MaxHexRadius == 2

\* the centers create_hexagon is called with: the default and another
HexCenters == {Origin, HexCoord(1, -1, 0)}

\* create_hexagon's loop leaving out the middle coordinate of the range
RECURSIVE create_hexagon_loop_hollow(_, _, _, _)
create_hexagon_loop_hollow(cs, coords, i, terrain_type) ==
    IF i > Len(coords) THEN cs
    ELSE create_hexagon_loop_hollow(
             IF 2 * i = Len(coords) + 1 THEN cs
             ELSE Put(cs, coords[i], HexCell(terrain_type, 1, FALSE, EmptyMap)),
             coords, i + 1, terrain_type)

\* for coord in center.get_range(radius): set_cell(coord, HexCell(terrain_type))
RECURSIVE create_hexagon_loop(_, _, _, _)
create_hexagon_loop(cs, coords, i, terrain_type) ==
    IF i > Len(coords) THEN cs
    ELSE create_hexagon_loop(Put(cs, coords[i], HexCell(terrain_type, 1, FALSE, EmptyMap)),
                             coords, i + 1, terrain_type)

\* create_hexagon(radius, center) on the grid as constructed: the grids
\* studied are those one call has filled
create_hexagon ==
    /\ pc = "idle"
    /\ cells = EmptyMap
    /\ \E radius \in 0..MaxHexRadius, center \in HexCenters :
          /\ cells' = create_hexagon_loop(cells, get_range(center, radius), 1, "ocean")
          /\ call' = [op |-> "create_hexagon", radius |-> radius, center |-> center]
    /\ UNCHANGED <<layout, searchvars, appvars>>

\* the search never runs out of open nodes on these grids (a conjunct of the
\* property checked), so the return [] after the loop does not appear
NextHexagon ==
    \/ create_hexagon
    \/ \E s \in DOMAIN cells, g \in DOMAIN cells : find_path(s, g)
    \/ find_path_found
    \/ find_path_expand

SpecHexagon == Init /\ [][NextHexagon]_vars

----------------------------------------------------------------------------
(* GameState.save_game and load_game (src/game-state.py) over the saves    *)
(* directory, with the corruption of a save file that                      *)
(* TestGameState.test_backup_restore writes. call.log lists the calls made. *)

\* the seeds of the game states saved: 1..MaxSeed
MaxSeed == 2
\* the calls of one behaviour
MaxCalls == 5

Filenames == {"test_backup", "test_save"}

\* a GameState: the fields the save file's metadata reads
GameState(seed) == [seed |-> seed, game_version |-> "0.1.0"]

GameStates == {GameState(seed) : seed \in 1..MaxSeed}

\* os.path.join(save_dir, f"{filename}.save")
save_path_of(filename) == <<filename, ".save">>

\* f"{save_path}.bak"
backup_path_of(filename) == <<filename, ".save.bak">>

\* what pickle.dump((save_data, self), f) writes
Pickled(save_data, game_state) == [pickle |-> <<save_data, game_state>>]

\* what f.write("CORRUPTED FILE") leaves
Corrupted == [text |-> "CORRUPTED FILE"]

\* pickle.load raises on a file pickle.dump did not write
Unpickles(contents) == "pickle" \in DOMAIN contents

\* the saves directory after save_game overwriting the save file in place
save_game_files_in_place(fs, self, filename) ==
    Put(fs, save_path_of(filename),
        Pickled([game_version |-> self.game_version, seed |-> self.seed], self))

\* the saves directory after self.save_game(filename), no call raising
save_game_files(fs, self, filename) ==
    LET save_path == save_path_of(filename)
        backup_path == backup_path_of(filename)
        removed == IF save_path \in DOMAIN fs /\ backup_path \in DOMAIN fs
                   THEN Del(fs, backup_path) ELSE fs
        renamed == IF save_path \in DOMAIN fs
                   THEN Put(Del(removed, save_path), backup_path, fs[save_path])
                   ELSE removed
        save_data == [game_version |-> self.game_version, seed |-> self.seed]
    IN  Put(renamed, save_path, Pickled(save_data, self))

\* what GameState.load_game(filename) returns; validate() is always True
\* and a version mismatch only logs
load_game_result(fs, filename) ==
    LET save_path == save_path_of(filename)
        backup_path == backup_path_of(filename)
    IN  IF save_path \notin DOMAIN fs THEN None
        ELSE IF Unpickles(fs[save_path]) THEN fs[save_path].pickle[2]
        ELSE IF backup_path \in DOMAIN fs /\ Unpickles(fs[backup_path])
             THEN fs[backup_path].pickle[2]
        ELSE None

\* the calls made so far
Log == IF call.op = "none" THEN <<>> ELSE call.log

\* the record of a call: the call and the log it extends
Logged(entry) == [op |-> entry.op, filename |-> entry.filename, state |-> entry.state,
                  result |-> entry.result, log |-> Append(Log, entry)]

save_game ==
    /\ Len(Log) < MaxCalls
    /\ \E self \in GameStates, filename \in Filenames :
          /\ files' = save_game_files(files, self, filename)
          /\ call' = Logged([op |-> "save_game", filename |-> filename, state |-> self,
                             result |-> TRUE])
    /\ UNCHANGED <<gridvars, calendar, machinevars, inputvars>>

\* with open(save_path, 'w') as f: f.write("CORRUPTED FILE")
corrupt_save ==
    /\ Len(Log) < MaxCalls
    /\ \E filename \in Filenames :
          /\ files' = Put(files, save_path_of(filename), Corrupted)
          /\ call' = Logged([op |-> "corrupt", filename |-> filename, state |-> None,
                             result |-> None])
    /\ UNCHANGED <<gridvars, calendar, machinevars, inputvars>>

load_game ==
    /\ Len(Log) < MaxCalls
    /\ \E filename \in Filenames :
          call' = Logged([op |-> "load_game", filename |-> filename, state |-> None,
                          result |-> load_game_result(files, filename)])
    /\ UNCHANGED <<gridvars, calendar, files, machinevars, inputvars>>

NextSave ==
    \/ save_game
    \/ corrupt_save
    \/ load_game

SpecSave == Init /\ [][NextSave]_vars

----------------------------------------------------------------------------
(* StateMachine (src/state-machine.py) and State.transition_to            *)
(* (src/base-state.py). A state instance is known by its identity; enter   *)
(* and exit of State only log, and call.calls lists the ones a call made.  *)

StateNames == {"main_menu", "world_map", "combat"}

StateInstances == {[class |-> "MainMenuState"], [class |-> "WorldMapState"]}

\* set_state calling exit on the current state before it looks the name up
set_state_outcome_exiting(state_name) ==
    LET exits == IF current_state # None THEN <<<<current_state, "exit">>>> ELSE <<>>
    IN  IF state_name \notin DOMAIN states
        THEN [result |-> FALSE, current_state |-> current_state, calls |-> exits]
        ELSE [result |-> TRUE, current_state |-> states[state_name],
              calls |-> Append(exits, <<states[state_name], "enter">>)]

\* StateMachine.set_state: the value returned, current_state afterwards, and
\* the exit and enter calls made, in order
set_state_outcome(state_name) ==
    IF state_name \notin DOMAIN states
    THEN [result |-> FALSE, current_state |-> current_state, calls |-> <<>>]
    ELSE LET exits == IF current_state # None THEN <<<<current_state, "exit">>>> ELSE <<>>
         IN  [result |-> TRUE, current_state |-> states[state_name],
              calls |-> Append(exits, <<states[state_name], "enter">>)]

\* the enter and exit calls of one behaviour
MaxLifecycle == 5

add_state ==
    \E state_name \in StateNames, state_instance \in StateInstances :
        /\ states' = Put(states, state_name, state_instance)
        /\ state_machine' = Put(state_machine, state_instance, "StateMachine")
        /\ call' = [op |-> "add_state", state_name |-> state_name,
                    state_instance |-> state_instance]
        /\ UNCHANGED <<gridvars, calendar, files, current_state, machine_pc, lifecycle, inputvars>>

set_state ==
    /\ Len(lifecycle) < MaxLifecycle
    /\ \E state_name \in StateNames :
        LET outcome == set_state_outcome(state_name)
        IN  /\ current_state' = outcome.current_state
            /\ lifecycle' = lifecycle \o outcome.calls
            /\ call' = [op |-> "set_state", state_name |-> state_name, before |-> current_state,
                        result |-> outcome.result, calls |-> outcome.calls]
    /\ UNCHANGED <<gridvars, calendar, files, states, state_machine, machine_pc, inputvars>>

\* State.transition_to on the instance self
transition_to ==
    /\ Len(lifecycle) < MaxLifecycle
    /\ \E self \in StateInstances, state_name \in StateNames :
        LET outcome == IF self \in DOMAIN state_machine
                       THEN set_state_outcome(state_name)
                       ELSE [result |-> FALSE, current_state |-> current_state, calls |-> <<>>]
        IN  /\ current_state' = outcome.current_state
            /\ lifecycle' = lifecycle \o outcome.calls
            /\ call' = [op |-> "transition_to", self |-> self, state_name |-> state_name,
                        before |-> current_state, result |-> outcome.result,
                        calls |-> outcome.calls]
    /\ UNCHANGED <<gridvars, calendar, files, states, state_machine, machine_pc, inputvars>>

\* StateMachine(initial_state) with a name: states = {}, current_state =
\* None, then set_state(initial_state)
StateMachine_init ==
    /\ call = NoCall
    /\ states = EmptyMap
    /\ \E initial_state \in StateNames :
        LET outcome == set_state_outcome(initial_state)
        IN  /\ states' = EmptyMap
            /\ current_state' = outcome.current_state
            /\ lifecycle' = lifecycle \o outcome.calls
            /\ call' = [op |-> "__init__", initial_state |-> initial_state,
                        result |-> outcome.result, calls |-> outcome.calls]
    /\ UNCHANGED <<gridvars, calendar, files, state_machine, machine_pc, inputvars>>

NextMachine ==
    \/ StateMachine_init
    \/ add_state
    \/ set_state
    \/ transition_to

SpecMachine == Init /\ [][NextMachine]_vars

----------------------------------------------------------------------------
(* StateMachine.set_state statement by statement: machine_pc is 0 outside  *)
(* a call and otherwise the index in set_state_body of the statement that  *)
(* runs next. State.enter and State.exit only log and return, so nothing    *)
(* else runs inside a call; add_state runs between calls.                  *)

\* set_state replacing current_state before it calls exit
set_state_body_replacing_first == <<"assign", "exit", "enter">>

\* the statements of set_state after the check of the name, in order:
\* if self.current_state: self.current_state.exit();
\* self.current_state = self.states[state_name]; self.current_state.enter()
set_state_body == <<"exit", "assign", "enter">>

\* the statement at machine_pc has run: on to the next one, or return True
set_state_advance ==
    IF machine_pc = Len(set_state_body)
    THEN /\ machine_pc' = 0
         /\ call' = [call EXCEPT !.returned = TRUE, !.result = TRUE]
    ELSE /\ machine_pc' = machine_pc + 1
         /\ UNCHANGED call

\* the call and the check of the name
set_state_call ==
    /\ machine_pc = 0
    /\ Len(lifecycle) < MaxLifecycle
    /\ \E state_name \in StateNames :
          /\ call' = [op |-> "set_state_steps", state_name |-> state_name,
                      before |-> current_state, returned |-> state_name \notin DOMAIN states,
                      result |-> FALSE]
          /\ machine_pc' = IF state_name \in DOMAIN states THEN 1 ELSE 0
    /\ UNCHANGED <<gridvars, calendar, files, states, current_state, state_machine, lifecycle, inputvars>>

set_state_exit ==
    /\ machine_pc > 0
    /\ set_state_body[machine_pc] = "exit"
    /\ lifecycle' = IF current_state # None
                    THEN Append(lifecycle, <<current_state, "exit">>)
                    ELSE lifecycle
    /\ set_state_advance
    /\ UNCHANGED <<gridvars, calendar, files, states, current_state, state_machine, inputvars>>

set_state_assign ==
    /\ machine_pc > 0
    /\ set_state_body[machine_pc] = "assign"
    /\ current_state' = states[call.state_name]
    /\ set_state_advance
    /\ UNCHANGED <<gridvars, calendar, files, states, state_machine, lifecycle, inputvars>>

set_state_enter ==
    /\ machine_pc > 0
    /\ set_state_body[machine_pc] = "enter"
    /\ lifecycle' = Append(lifecycle, <<current_state, "enter">>)
    /\ set_state_advance
    /\ UNCHANGED <<gridvars, calendar, files, states, current_state, state_machine, inputvars>>

NextLifecycle ==
    \/ machine_pc = 0 /\ add_state
    \/ set_state_call
    \/ set_state_exit
    \/ set_state_assign
    \/ set_state_enter

SpecLifecycle == Init /\ [][NextLifecycle]_vars

----------------------------------------------------------------------------
(* Calendar (src/calendar.py): months of days_per_month = 30 days, years   *)
(* of months_per_year = 12 months.                                         *)

\* the largest of the consecutive numbers of days advance is called with
MaxAdvance == 61
\* advance is called while total_days stays within MaxTotalDays
MaxTotalDays == 800

days_per_month == 30

months_per_year == 12

\* the arguments of advance: 0..MaxAdvance, a year, and two years and a day
Advances == 0..MaxAdvance \cup {360, 721}

\* the while loop of advance taking a day equal to days_per_month as overflow
RECURSIVE advance_loop_inclusive(_, _, _)
advance_loop_inclusive(self, months_elapsed, years_elapsed) ==
    IF self.day >= days_per_month
    THEN LET rolled == [self EXCEPT !.day = @ - days_per_month, !.month = @ + 1]
         IN  IF rolled.month > months_per_year
             THEN advance_loop_inclusive([rolled EXCEPT !.month = 1, !.year = @ + 1],
                                         months_elapsed + 1, years_elapsed + 1)
             ELSE advance_loop_inclusive(rolled, months_elapsed + 1, years_elapsed)
    ELSE [self |-> self, months_elapsed |-> months_elapsed, years_elapsed |-> years_elapsed]

\* while self.day > self.days_per_month: ...
RECURSIVE advance_loop(_, _, _)
advance_loop(self, months_elapsed, years_elapsed) ==
    IF self.day > days_per_month
    THEN LET rolled == [self EXCEPT !.day = @ - days_per_month, !.month = @ + 1]
         IN  IF rolled.month > months_per_year
             THEN advance_loop([rolled EXCEPT !.month = 1, !.year = @ + 1],
                               months_elapsed + 1, years_elapsed + 1)
             ELSE advance_loop(rolled, months_elapsed + 1, years_elapsed)
    ELSE [self |-> self, months_elapsed |-> months_elapsed, years_elapsed |-> years_elapsed]

\* Calendar.advance: the calendar afterwards and the tuple returned
Calendar_advance(self, days) ==
    LET looped == advance_loop([self EXCEPT !.total_days = @ + days, !.day = @ + days], 0, 0)
    IN  [self |-> looped.self,
         result |-> <<days, looped.months_elapsed, looped.years_elapsed>>]

advance ==
    \E days \in Advances :
        /\ calendar.total_days + days <= MaxTotalDays
        /\ LET outcome == Calendar_advance(calendar, days)
           IN  /\ calendar' = outcome.self
               /\ call' = [op |-> "advance", days |-> days, before |-> calendar,
                           result |-> outcome.result]
        /\ UNCHANGED <<gridvars, files, machinevars, inputvars>>

reset ==
    /\ calendar' = [calendar EXCEPT !.day = 1, !.month = 1, !.year = 1, !.total_days = 0]
    /\ call' = [op |-> "reset"]
    /\ UNCHANGED <<gridvars, files, machinevars, inputvars>>

NextCalendar ==
    \/ advance
    \/ reset

SpecCalendar == Init /\ [][NextCalendar]_vars

----------------------------------------------------------------------------
(* InputHandler (src/input-system.py): the input mode and the text input   *)
(* buffer. A text is a sequence of characters; call.delivered lists the     *)
(* texts a call passed to text_input_callback.                              *)

\* the longest initial_text
MaxText == 2
\* the longest text_input_buffer a character is typed into
MaxBuffer == 3

InputMode == {"NORMAL", "MENU", "WORLD_MAP", "TACTICAL", "DIALOG", "TEXT_INPUT"}

Chars == {"a", "b"}

Texts == UNION {[1..n -> Chars] : n \in 0..MaxText}

Callbacks == {None, [callback |-> "on_text_entered"]}

\* KEYDOWN events: the key, the modifier held and the character typed
KeyEvents ==
    {[sym |-> k, mod |-> "NONE", ch |-> ""] :
        k \in {"K_BACKSPACE", "K_RETURN", "K_ESCAPE", "K_TAB", "K_F1"}}
    \cup {[sym |-> "K_" \o c, mod |-> "NONE", ch |-> c] : c \in Chars}
    \cup {[sym |-> "K_v", mod |-> "KMOD_CTRL", ch |-> ""],
          [sym |-> "K_s", mod |-> "KMOD_CTRL", ch |-> ""],
          [sym |-> "K_a", mod |-> "KMOD_ALT", ch |-> "a"]}

\* the handler's fields
Handler == [current_mode |-> current_mode, text_input_buffer |-> text_input_buffer,
            text_input_callback |-> text_input_callback]

\* InputHandler.set_mode
set_mode_of(self, mode) ==
    [self EXCEPT !.current_mode = mode,
                 !.text_input_buffer = IF mode = "TEXT_INPUT" THEN <<>> ELSE @]

\* InputHandler.start_text_input
start_text_input_of(self, callback, initial_text) ==
    set_mode_of([self EXCEPT !.text_input_buffer = initial_text,
                             !.text_input_callback = callback],
                "TEXT_INPUT")

\* InputHandler._handle_key in TEXT_INPUT mode: the handler afterwards, the
\* texts passed to the callback and the dict returned. An event no branch
\* returns for falls to key_mappings[TEXT_INPUT], which maps K_ESCAPE and
\* K_RETURN only, and yields GameAction.NONE.
handle_text_key(self, event) ==
    LET buffer == self.text_input_buffer
    IN  IF event.sym = "K_BACKSPACE"
        THEN LET cut == IF Len(buffer) > 0 THEN SubSeq(buffer, 1, Len(buffer) - 1) ELSE buffer
             IN  [handler |-> [self EXCEPT !.text_input_buffer = cut], delivered |-> <<>>,
                  result |-> [action |-> "NONE", text_buffer |-> cut]]
        ELSE IF event.sym = "K_RETURN"
        THEN [handler |-> set_mode_of(self, "NORMAL"),
              delivered |-> IF self.text_input_callback # None THEN <<buffer>> ELSE <<>>,
              result |-> [action |-> "CONFIRM", text |-> buffer]]
        ELSE IF event.sym = "K_ESCAPE"
        THEN [handler |-> set_mode_of(self, "NORMAL"), delivered |-> <<>>,
              result |-> [action |-> "CANCEL"]]
        ELSE IF event.sym = "K_TAB"
        THEN [handler |-> self, delivered |-> <<>>,
              result |-> [action |-> "NONE", key |-> "tab", text_buffer |-> buffer]]
        ELSE IF event.mod = "KMOD_CTRL"
        THEN [handler |-> self, delivered |-> <<>>,
              result |-> IF event.sym = "K_v"
                         THEN [action |-> "NONE", key |-> "paste", text_buffer |-> buffer]
                         ELSE [action |-> "NONE"]]
        ELSE IF event.mod # "KMOD_ALT" /\ event.ch # ""
        THEN LET typed == Append(buffer, event.ch)
             IN  [handler |-> [self EXCEPT !.text_input_buffer = typed], delivered |-> <<>>,
                  result |-> [action |-> "NONE", text_buffer |-> typed]]
        ELSE [handler |-> self, delivered |-> <<>>, result |-> [action |-> "NONE"]]

\* the handler's fields become those of self
Becomes(self) ==
    /\ current_mode' = self.current_mode
    /\ text_input_buffer' = self.text_input_buffer
    /\ text_input_callback' = self.text_input_callback

set_mode ==
    \E mode \in InputMode :
        /\ Becomes(set_mode_of(Handler, mode))
        /\ call' = [op |-> "set_mode", mode |-> mode]
        /\ UNCHANGED <<gridvars, calendar, files, machinevars>>

start_text_input ==
    \E callback \in Callbacks, initial_text \in Texts :
        /\ Becomes(start_text_input_of(Handler, callback, initial_text))
        /\ call' = [op |-> "start_text_input", callback |-> callback,
                    initial_text |-> initial_text]
        /\ UNCHANGED <<gridvars, calendar, files, machinevars>>

\* _handle_key in TEXT_INPUT mode
handle_key_text ==
    /\ current_mode = "TEXT_INPUT"
    /\ \E event \in KeyEvents :
          LET outcome == handle_text_key(Handler, event)
          IN  /\ Len(outcome.handler.text_input_buffer) <= MaxBuffer
              /\ Becomes(outcome.handler)
              /\ call' = [op |-> "_handle_key", event |-> event, before |-> Handler,
                          delivered |-> outcome.delivered, result |-> outcome.result]
    /\ UNCHANGED <<gridvars, calendar, files, machinevars>>

\* _handle_key in the other modes: key_mappings decides the dict returned
\* and no field of the handler changes
handle_key_mapped ==
    /\ current_mode # "TEXT_INPUT"
    /\ \E event \in KeyEvents :
          call' = [op |-> "_handle_key", event |-> event, before |-> Handler,
                   delivered |-> <<>>, result |-> [action |-> "key_mappings"]]
    /\ UNCHANGED <<gridvars, calendar, files, machinevars, inputvars>>

NextInput ==
    \/ set_mode
    \/ start_text_input
    \/ handle_key_text
    \/ handle_key_mapped

SpecInput == Init /\ [][NextInput]_vars

----------------------------------------------------------------------------
(* Properties of find_path. *)

\* the stored cells joined to the cells of S by chains of adjacent stored cells
RECURSIVE ReachSet(_)
ReachSet(S) ==
    LET N == S \cup {n \in DOMAIN cells : \E c \in S : distance(c, n) = 1}
    IN  IF N = S THEN S ELSE ReachSet(N)

Connected(s, g) == s \in DOMAIN cells /\ g \in ReachSet({s})

\* the least number of steps between adjacent stored cells from the cells of
\* frontier (d steps from the source) to g; g must be reachable
RECURSIVE StepsFrom(_, _, _, _)
StepsFrom(frontier, seen, g, d) ==
    IF g \in frontier THEN d
    ELSE LET nxt == {n \in DOMAIN cells \ seen : \E c \in frontier : distance(c, n) = 1}
         IN  StepsFrom(nxt, seen \cup nxt, g, d + 1)

Steps(s, g) == StepsFrom({s}, {s}, g, 0)

UnitCosts == \A c \in DOMAIN cells : cells[c].movement_cost = 1

\* C1: a non-empty path returned by find_path begins with start, ends with
\* goal, visits stored cells only, moves between adjacent hexes and repeats no
\* coordinate; find_path(c, c) on a stored c returns [c].
C1_PathIsChain ==
    pc = "done" =>
        /\ path # <<>> =>
              /\ path[1] = start
              /\ path[Len(path)] = goal
              /\ \A i \in 1..Len(path) : path[i] \in DOMAIN cells
              /\ \A i \in 1..(Len(path) - 1) : distance(path[i], path[i + 1]) = 1
              /\ \A i, j \in 1..Len(path) : i # j => path[i] # path[j]
        /\ (start = goal /\ start \in DOMAIN cells) => path = <<start>>

\* a path of four cells has been returned
C1_Witness == pc = "done" /\ Len(path) = 4

\* C2 as stated: with unit costs the path to a connected goal has exactly
\* distance + 1 cells, and is empty when the goal is not stored or unreachable.
C2_Original ==
    (pc = "done" /\ UnitCosts /\ start \in DOMAIN cells) =>
        IF goal \in DOMAIN cells /\ Connected(start, goal)
        THEN Len(path) = distance(start, goal) + 1
        ELSE path = <<>>

\* C2 amended: with unit costs the path to a connected goal has the fewest
\* cells any chain of adjacent stored cells from start to goal has, which is
\* never fewer than distance + 1; it is empty when the goal is not stored or
\* unreachable.
C2_ShortestChain ==
    (pc = "done" /\ UnitCosts /\ start \in DOMAIN cells) =>
        IF goal \in DOMAIN cells /\ Connected(start, goal)
        THEN /\ Len(path) = Steps(start, goal) + 1
             /\ Len(path) >= distance(start, goal) + 1
        ELSE path = <<>>

\* a unit-cost search that had to go around a missing cell
C2_Witness ==
    /\ pc = "done"
    /\ UnitCosts
    /\ path # <<>>
    /\ Len(path) > distance(start, goal) + 1

\* C3: with both endpoints stored, whatever the costs, find_path returns the
\* empty list exactly when no chain of adjacent stored cells joins them.
C3_EmptyIffUnreachable ==
    (pc = "done" /\ start \in DOMAIN cells /\ goal \in DOMAIN cells) =>
        (path = <<>> <=> ~Connected(start, goal))

\* a search over cells of different costs that exhausted the open set
C3_Witness ==
    /\ pc = "done"
    /\ start \in DOMAIN cells
    /\ goal \in DOMAIN cells
    /\ ~Connected(start, goal)
    /\ Cardinality(ReachSet({start})) >= 2
    /\ ~UnitCosts
    /\ path = <<>>

\* C4: with start or goal not stored find_path returns the empty list, and it
\* expands nothing: the search loop is entered with both endpoints stored only.
C4_MissingEndpoint ==
    /\ (pc = "done" /\ (start \notin DOMAIN cells \/ goal \notin DOMAIN cells)) => path = <<>>
    /\ pc = "search" => (start \in DOMAIN cells /\ goal \in DOMAIN cells)

\* start is stored and a stored cell lies next to the goal, which is not stored
C4_Witness ==
    /\ pc = "done"
    /\ start \in DOMAIN cells
    /\ goal \notin DOMAIN cells
    /\ \E n \in DOMAIN cells : distance(n, goal) = 1 /\ distance(n, start) = 1
    /\ path = <<>>

----------------------------------------------------------------------------
(* Properties of the HexCoord functions. *)

\* v is a coordinate, and one that satisfies the cube invariant
Valid(v) == IsCoord(v) /\ v.x + v.y + v.z = 0

\* C5 as stated: from_pixel gives back the coordinate whose pixel position
\* to_pixel computed, for both orientations, every size and every origin.
C5_PixelRoundTrip ==
    call.op = "from_pixel" => call.result = call.self

\* C6: every coordinate a HexCoord function returns satisfies x + y + z = 0,
\* and HexCoord(x, y, z) with x + y + z # 0 fails with an error instead.
C6_CubeInvariant ==
    /\ call.op = "HexCoord" =>
          IF call.x + call.y + call.z # 0
          THEN call.result = ValueError
          ELSE Valid(call.result)
    /\ call.op \in {"HexCoord2", "from_axial", "from_offset", "add", "sub", "mul",
                    "get_neighbor", "cube_round"} =>
          Valid(call.result)
    /\ call.op \in {"get_neighbors", "get_range", "linedraw"} =>
          \A i \in 1..Len(call.result) : Valid(call.result[i])

\* cube_round returned a coordinate although the three rounded components
\* did not sum to 0
C6_Witness ==
    /\ call.op = "cube_round"
    /\ NRound(call.x) + NRound(call.y) + NRound(call.z) # 0
    /\ Valid(call.result)

\* C7: from_axial undoes to_axial and from_offset undoes to_offset, in both
\* orientations, also for negative and odd components.
C7_RoundTrip ==
    /\ call.op = "to_axial" =>
          from_axial(call.result[1], call.result[2]) = call.self
    /\ call.op = "to_offset" =>
          from_offset(call.result[1], call.result[2], call.orientation) = call.self

\* to_offset was applied to a coordinate whose staggered component is negative and odd
C7_Witness ==
    /\ call.op = "to_offset"
    /\ \/ call.orientation = "POINTY_TOP" /\ call.self.z < 0 /\ call.self.z % 2 = 1
       \/ call.orientation = "FLAT_TOP" /\ call.self.x < 0 /\ call.self.x % 2 = 1

\* C8: a.linedraw(b) has a.distance(b) + 1 elements, starts at a and ends at
\* b; it is [a] when a = b.
C8_LineEndpoints ==
    call.op = "linedraw" =>
        /\ Len(call.result) = distance(call.self, call.other) + 1
        /\ call.result[1] = call.self
        /\ call.result[Len(call.result)] = call.other
        /\ call.self = call.other => call.result = <<call.self>>

\* a line between coordinates three or more steps apart has been drawn
C8_Witness ==
    /\ call.op = "linedraw"
    /\ distance(call.self, call.other) >= 3

\* C9: has_line_of_sight is false exactly when an element of the line other
\* than its first and last is a blocker; no such element is a or b, so that
\* blockers at the endpoints do not block; coordinates at distance 0 or 1
\* always see each other.
C9_LineOfSight ==
    call.op = "has_line_of_sight" =>
        /\ call.line \in linedraw(call.self, call.other)
        /\ call.result = FALSE <=>
              \E i \in 2..(Len(call.line) - 1) : call.line[i] \in call.blockers
        /\ \A i \in 2..(Len(call.line) - 1) : call.line[i] \notin {call.self, call.other}
        /\ call.blockers \subseteq {call.self, call.other} => call.result = TRUE
        /\ distance(call.self, call.other) <= 1 => call.result = TRUE

\* sight along a line of three or more hexes with blockers at both endpoints
\* and nowhere else
C9_Witness ==
    /\ call.op = "has_line_of_sight"
    /\ distance(call.self, call.other) >= 2
    /\ call.blockers = {call.self, call.other}
    /\ call.result = TRUE

\* C10: c.get_range(r) holds every coordinate within distance r of c exactly
\* once and nothing else, 3 * r * (r + 1) + 1 elements in all, and is [c] for
\* r = 0.
C10_Range ==
    call.op = "get_range" =>
        LET c == call.self
            r == call.radius
            near == {HexCoord2(c.x + dx, c.y + dy) : dx \in -(r + 1)..(r + 1), dy \in -(r + 1)..(r + 1)}
        IN  /\ \A n \in near :
                  distance(c, n) <= r =>
                      Cardinality({i \in 1..Len(call.result) : call.result[i] = n}) = 1
            /\ \A i \in 1..Len(call.result) :
                  /\ Valid(call.result[i])
                  /\ distance(c, call.result[i]) <= r
            /\ Len(call.result) = 3 * r * (r + 1) + 1
            /\ r = 0 => call.result = <<c>>

\* the range of radius 2 around a coordinate other than the origin
C10_Witness ==
    /\ call.op = "get_range"
    /\ call.radius = 2
    /\ call.self # Origin

----------------------------------------------------------------------------
(* Properties of the grid's storage, utility and serialization methods. *)

\* what the dict cs holds at coord
At(cs, coord) == IF coord \in DOMAIN cs THEN cs[coord] ELSE None

\* the coordinates a step of the grid may touch
Touched == DOMAIN cells \cup DOMAIN cells' \cup GridCoords

\* C11: the grid is a finite map under set_cell and remove_cell. At every
\* state is_in_bounds(c) is true exactly when get_cell(c) is present; a step
\* set_cell(c, cell) makes get_cell(c) return cell and a step remove_cell(c)
\* makes it absent, both leaving every other coordinate as it was;
\* remove_cell of an absent coordinate changes nothing and raises nothing;
\* get_cell and is_in_bounds change nothing and report the stored cell. So
\* get_cell(c) is the cell of the last set_cell(c, cell) no remove_cell(c)
\* followed, and absent if there is none.
C11_FiniteMap ==
    /\ [](\A c \in DOMAIN cells \cup GridCoords : is_in_bounds(c) <=> get_cell(c) # None)
    /\ [][/\ call'.op = "set_cell" =>
               /\ At(cells', call'.coord) = call'.cell
               /\ \A d \in Touched \ {call'.coord} : At(cells', d) = At(cells, d)
          /\ call'.op = "remove_cell" =>
               /\ At(cells', call'.coord) = None
               /\ \A d \in Touched \ {call'.coord} : At(cells', d) = At(cells, d)
               /\ ~is_in_bounds(call'.coord) => cells' = cells
               /\ call'.result = None
          /\ call'.op = "get_cell" =>
               /\ cells' = cells
               /\ call'.result = get_cell(call'.coord)
          /\ call'.op = "is_in_bounds" =>
               /\ cells' = cells
               /\ call'.result = (get_cell(call'.coord) # None)]_vars

\* a set_cell has replaced the cell of a coordinate of a grid holding others
C11_Witness ==
    /\ call.op = "set_cell"
    /\ Cardinality(DOMAIN cells) >= 3
    /\ cells[call.coord] = call.cell
    /\ \E d \in DOMAIN cells : cells[d] # call.cell

\* C12: decoding the encoding of a grid reached by set_cell, remove_cell and
\* create_rectangle gives a grid with the same coordinates, each mapped to a
\* cell with the same four fields, and the same orientation, hex_size and
\* origin, whatever order the encoding lists the cells in.
C12_DictRoundTrip ==
    call.op = "from_dict" =>
        /\ call.result # ValueError
        /\ DOMAIN call.result.cells = DOMAIN cells
        /\ \A c \in DOMAIN cells :
              /\ call.result.cells[c].terrain_type = cells[c].terrain_type
              /\ call.result.cells[c].movement_cost = cells[c].movement_cost
              /\ call.result.cells[c].blocks_sight = cells[c].blocks_sight
              /\ call.result.cells[c].metadata = cells[c].metadata
        /\ call.result.orientation = grid_orientation
        /\ call.result.hex_size = grid_hex_size
        /\ call.result.origin = grid_origin

\* a grid of three cells of mixed terrain, one at a coordinate with a
\* negative component, not in the default layout, has been encoded and decoded
C12_Witness ==
    /\ call.op = "from_dict"
    /\ Cardinality(DOMAIN cells) = 3
    /\ Cardinality({cells[c].terrain_type : c \in DOMAIN cells}) >= 2
    /\ HexCoord(-1, 1, 0) \in DOMAIN cells
    /\ grid_orientation = "FLAT_TOP"

\* the keys that are exactly three comma-separated integers
WellFormedKey(s) ==
    LET parts == split(s, ",")
    IN  Len(parts) = 3 /\ \A i \in 1..3 : IsIntLiteral(parts[i])

\* C13: from_dict returns no grid, but raises, when a key of the cells dict
\* is not exactly three comma-separated integers, wherever the key stands.
C13_MalformedKeyFails ==
    (/\ call.op = "HexGrid.from_dict"
     /\ "cells" \in DOMAIN call.data
     /\ \E i \in DOMAIN call.data.cells : ~WellFormedKey(call.data.cells[i][1]))
    => call.result = ValueError

\* a dict whose first key is well formed and whose second is not has been decoded
C13_Witness ==
    /\ call.op = "HexGrid.from_dict"
    /\ "cells" \in DOMAIN call.data
    /\ Len(call.data.cells) = 2
    /\ call.data.cells[1][1] = coord_key(HexCoord(1, -1, 0))
    /\ ~WellFormedKey(call.data.cells[2][1])
    /\ call.result = ValueError

\* the defaults of HexCell.from_dict
CellDefaults ==
    [terrain_type |-> "ocean", movement_cost |-> 1, blocks_sight |-> FALSE, metadata |-> EmptyMap]

\* the cell a cell dict decodes to: a field present is kept, one missing is defaulted
Decoded(data) == [k \in DOMAIN CellDefaults |-> IF k \in DOMAIN data THEN data[k] ELSE CellDefaults[k]]

\* C14: decoding data with missing fields does not fail and fills defaults.
\* HexCell.from_dict keeps each field present and gives a missing one
\* "ocean", 1.0, False, {}. HexGrid.from_dict, when the keys present under
\* "cells" are coordinates, returns a grid whose orientation, hex_size and
\* origin are the ones present or POINTY_TOP, 10.0, (0, 0), and whose cells
\* are those of "cells", decoded in the same way, or none if it is missing.
C14_Defaults ==
    /\ call.op = "HexCell.from_dict" => call.result = Decoded(call.data)
    /\ call.op = "HexGrid.from_dict" =>
         LET data == call.data
             items == IF "cells" \in DOMAIN data THEN data.cells ELSE <<>>
         IN  (\A i \in DOMAIN items : parse_coord(items[i][1]) # ValueError) =>
                /\ call.result # ValueError
                /\ call.result.orientation =
                      IF "orientation" \in DOMAIN data
                      THEN (IF data.orientation = 0 THEN "POINTY_TOP" ELSE "FLAT_TOP")
                      ELSE "POINTY_TOP"
                /\ call.result.hex_size = IF "hex_size" \in DOMAIN data THEN data.hex_size ELSE 10
                /\ call.result.origin = IF "origin" \in DOMAIN data THEN data.origin ELSE <<0, 0>>
                /\ DOMAIN call.result.cells = {parse_coord(items[i][1]) : i \in DOMAIN items}
                /\ \A i \in DOMAIN items :
                      (\A j \in DOMAIN items :
                          j > i => parse_coord(items[j][1]) # parse_coord(items[i][1]))
                      => call.result.cells[parse_coord(items[i][1])] = Decoded(items[i][2])

\* a dict holding nothing but "cells", with a cell dict missing two fields, has been decoded
C14_Witness ==
    /\ call.op = "HexGrid.from_dict"
    /\ DOMAIN call.data = {"cells"}
    /\ Len(call.data.cells) = 2
    /\ DOMAIN call.data.cells[2][2] = {"terrain_type", "blocks_sight"}
    /\ call.result # ValueError
    /\ call.result.orientation = "POINTY_TOP"
    /\ Cardinality(DOMAIN call.result.cells) = 2

\* the region create_rectangle(width, height) fills
Rectangle(width, height) ==
    {from_axial(q, r) : q \in 0..(width - 1), r \in (-MaxWidth)..MaxHeight} \cap
    UNION {{from_axial(q, r) : r \in (-(q \div 2))..(height - (q \div 2) - 1)} : q \in 0..(width - 1)}

\* C16: a step create_rectangle(width, height, t) stores, for each q in
\* 0..width-1, a cell of terrain t, cost 1.0, not blocking sight, without
\* metadata at from_axial(q, r) for -floor(q/2) <= r < height - floor(q/2):
\* width*height coordinates. Cells stored there before are overwritten and
\* every cell outside is left as it was; on an empty grid the grid then holds
\* exactly those width*height cells.
C16_Rectangle ==
    [][call'.op = "create_rectangle" =>
         LET region == Rectangle(call'.width, call'.height)
         IN  /\ Cardinality(region) = call'.width * call'.height
             /\ \A c \in region : At(cells', c) = HexCell(call'.terrain_type, 1, FALSE, EmptyMap)
             /\ DOMAIN cells' = DOMAIN cells \cup region
             /\ \A c \in DOMAIN cells \ region : cells'[c] = cells[c]
             /\ cells = EmptyMap => Cardinality(DOMAIN cells') = call'.width * call'.height]_vars

\* a rectangle three wide has been laid over a grid holding a cell outside it
C16_Witness ==
    /\ call.op = "create_rectangle"
    /\ call.width = 3
    /\ call.height = 2
    /\ HexCoord(2, -2, 0) \in DOMAIN cells
    /\ HexCoord(-1, 1, 0) \in DOMAIN cells
    /\ cells[HexCoord(-1, 1, 0)].terrain_type = "reef"
    /\ cells[Origin].terrain_type = "land"

----------------------------------------------------------------------------
(* Properties of find_path on a hexagon. *)

\* C15: on the grid one create_hexagon(r, center) has filled, find_path(s, g)
\* between stored coordinates never runs out of open nodes and returns a path
\* of s.distance(g) + 1 coordinates; for r = 2 around the origin the path from
\* (0,0,0) to (2,-2,0) has 3 coordinates.
C15_HexagonPath ==
    call.op = "create_hexagon" =>
        /\ pc = "search" => open_set # {}
        /\ pc = "done" => Len(path) = distance(start, goal) + 1
        /\ (/\ pc = "done"
            /\ call.radius = 2
            /\ call.center = Origin
            /\ start = Origin
            /\ goal = HexCoord(2, -2, 0)) => Len(path) = 3

\* the search from the origin to (2,-2,0) on the hexagon of radius 2 has returned
C15_Witness ==
    /\ call.op = "create_hexagon"
    /\ call.radius = 2
    /\ call.center = Origin
    /\ pc = "done"
    /\ start = Origin
    /\ goal = HexCoord(2, -2, 0)
    /\ Len(path) = 3

----------------------------------------------------------------------------
(* Properties of the cost of a path. *)

\* the position of coordinate n among the six neighbours of c
DirectionOf(c, n) == CHOOSE k \in 1..6 : get_neighbors(c)[k] = n

\* the movement costs of the cells of the sequence p after the first, summed
RECURSIVE CostOfEntering(_)
CostOfEntering(p) ==
    IF Len(p) <= 1 THEN 0
    ELSE CostOfEntering(SubSeq(p, 1, Len(p) - 1)) + cells[p[Len(p)]].movement_cost

\* C20: get_neighbors_for_pathfinding(c) lists the neighbours of c that have
\* a stored cell, each once, in the order of the six directions, each with
\* its own movement_cost; and while find_path searches, the g-score of every
\* node it has reached is the sum of the movement costs of the cells on the
\* path back to the start, the start's own cost left out.
C20_CostOfEntering ==
    /\ \A c \in Universe :
          LET r == get_neighbors_for_pathfinding(c)
          IN  /\ {r[i][1] : i \in 1..Len(r)} =
                    {get_neighbors(c)[k] : k \in 1..6} \cap DOMAIN cells
              /\ \A i \in 1..Len(r) : r[i][2] = cells[r[i][1]].movement_cost
              /\ \A i, j \in 1..Len(r) : i < j => DirectionOf(c, r[i][1]) < DirectionOf(c, r[j][1])
    /\ pc = "search" =>
          \A n \in DOMAIN g_score :
              LET p == ReconstructPath(came_from, n)
              IN  /\ p[1] = start
                  /\ g_score[n] = CostOfEntering(p)

\* the search has reached a node two steps from a start whose own cost is 1
\* at a g-score of 0
C20_Witness ==
    /\ pc = "search"
    /\ cells[start].movement_cost = 1
    /\ \E n \in DOMAIN g_score :
          /\ Len(ReconstructPath(came_from, n)) = 3
          /\ g_score[n] = 0
    /\ \E n \in DOMAIN g_score : g_score[n] = 1

----------------------------------------------------------------------------
(* Properties of saving and loading. *)

\* the calls made under the name of the last call
LogOfName == SelectSeq(Log, LAMBDA entry : entry.filename = call.filename)

\* C17: when the last four calls under a name are save_game of a state S1,
\* save_game of a state S2, the corruption of the save file and load_game,
\* load_game returns a state, and it is S1, which the second save kept as
\* the backup.
C17_BackupRestore ==
    LET L == LogOfName
        n == Len(L)
    IN  (/\ call.op = "load_game"
         /\ n >= 4
         /\ L[n - 3].op = "save_game"
         /\ L[n - 2].op = "save_game"
         /\ L[n - 1].op = "corrupt")
        => /\ call.result # None
           /\ call.result = L[n - 3].state

\* two different states have been saved under a name, the save file
\* corrupted, and the name loaded
C17_Witness ==
    LET L == LogOfName
    IN  /\ call.op = "load_game"
        /\ Len(L) = 4
        /\ L[1].op = "save_game"
        /\ L[2].op = "save_game"
        /\ L[1].state # L[2].state
        /\ L[3].op = "corrupt"
        /\ call.result = L[1].state

----------------------------------------------------------------------------
(* Properties of the state machine. *)

\* C18: set_state(name) with a name add_state never registered returns
\* False, leaves current_state the instance it was and calls neither exit
\* nor enter; with a registered name it returns True and current_state is
\* the instance registered under the name. transition_to of an instance that
\* was added to the machine does the same.
C18_SetState ==
    (\/ call.op = "set_state"
     \/ call.op = "transition_to" /\ call.self \in DOMAIN state_machine)
    => IF call.state_name \in DOMAIN states
       THEN /\ call.result = TRUE
            /\ current_state = states[call.state_name]
       ELSE /\ call.result = FALSE
            /\ current_state = call.before
            /\ call.calls = <<>>

\* set_state has been given an unregistered name while a state was current
\* and other names were registered
C18_Witness ==
    /\ call.op = "set_state"
    /\ call.state_name \notin DOMAIN states
    /\ states # EmptyMap
    /\ current_state # None
    /\ call.result = FALSE

----------------------------------------------------------------------------
(* Properties of text input. *)

\* C19: after start_text_input(callback, initial_text = T) the handler is
\* in TEXT_INPUT mode and text_input_buffer is T.
C19_InitialText ==
    call.op = "start_text_input"
    => /\ current_mode = "TEXT_INPUT"
       /\ text_input_buffer = call.initial_text

----------------------------------------------------------------------------
(* Properties of rounding. *)

\* C21: on every fractional cube point with x + y + z = 0, cube_round and
\* the rounding step of linedraw return the same coordinate.
C21_RoundingAgrees ==
    call.op = "rounding" => call.linedraw = {call.cube_round}

----------------------------------------------------------------------------
(* Properties of the search loop. *)

\* following cf from n leaves DOMAIN cf within k steps
RECURSIVE ChainEnds(_, _, _)
ChainEnds(cf, n, k) ==
    IF n \notin DOMAIN cf THEN TRUE
    ELSE IF k = 0 THEN FALSE
    ELSE ChainEnds(cf, cf[n], k - 1)

\* no chain of predecessors comes back to where it began
Acyclic(cf) == \A n \in DOMAIN cf : ChainEnds(cf, n, Cardinality(DOMAIN cf))

\* C22: find_path terminates. An iteration of the loop that does not return
\* moves exactly one coordinate from the open set to the closed set; a
\* closed coordinate stays closed, is never in the open set again and keeps
\* its predecessor and its g-score; closed coordinates are stored cells
\* other than the goal, so the loop runs at most as many iterations as
\* there are stored cells; while the open set has members min selects one,
\* so an iteration is never stuck; and the predecessor chains have no
\* cycle, so the reconstruction ends.
C22_Terminates ==
    /\ [](pc = "search" =>
            /\ open_set \cap closed_set = {}
            /\ open_set \cup closed_set \subseteq DOMAIN cells
            /\ goal \notin closed_set
            /\ Cardinality(closed_set) < Cardinality(DOMAIN cells)
            /\ open_set # {} => MinFScore(open_set, f_score) # {}
            /\ start \notin DOMAIN came_from
            /\ Acyclic(came_from))
    /\ [][pc = "search" /\ pc' = "search" =>
            /\ \E current \in open_set :
                  /\ current \notin closed_set
                  /\ closed_set' = closed_set \cup {current}
                  /\ current \notin open_set'
            /\ \A c \in closed_set :
                  /\ c \notin open_set'
                  /\ At(came_from', c) = At(came_from, c)
                  /\ g_score'[c] = g_score[c]]_vars

\* the loop has closed three coordinates and has more to look at, one of
\* them next to a closed coordinate that is not its predecessor
C22_Witness ==
    /\ pc = "search"
    /\ Cardinality(closed_set) >= 3
    /\ \E n \in open_set, c \in closed_set :
          /\ distance(n, c) = 1
          /\ came_from[n] # c

----------------------------------------------------------------------------
(* Properties of the cost of the path. *)

\* the least member of a set of numbers
SetMin(S) == CHOOSE m \in S : \A x \in S : m <= x

\* one round of relaxation over the stored cells: d[v] or, if less, the
\* cost of entering v from an adjacent stored cell u, d[u] + movement_cost
Relaxed(d) ==
    [v \in DOMAIN cells |->
        SetMin({d[v]} \cup {d[u] + cells[v].movement_cost :
                               u \in {w \in DOMAIN cells : distance(w, v) = 1}})]

RECURSIVE Rounds(_, _)
Rounds(d, k) == IF k = 0 THEN d ELSE Rounds(Relaxed(d), k - 1)

\* the least total entering cost of a chain of adjacent stored cells from s
\* to g, Inf when there is none
MinCost(s, g) ==
    Rounds([v \in DOMAIN cells |-> IF v = s THEN 0 ELSE Inf], Cardinality(DOMAIN cells))[g]

\* C23: when every stored cell has movement_cost >= 1, the path find_path
\* returns has the least total entering cost any chain of adjacent stored
\* cells from start to goal has, whichever member of least f-score each
\* iteration selected.
C23_MinimumCost ==
    (/\ pc = "done"
     /\ path # <<>>
     /\ \A c \in DOMAIN cells : cells[c].movement_cost >= 1)
    => CostOfEntering(path) = MinCost(start, goal)

\* a path has been returned that passes by a shorter or equally short route
\* of higher cost: a stored neighbour of the start, nearer to the goal than
\* the start, costs more than the path's first step
C23_Witness ==
    /\ pc = "done"
    /\ Len(path) >= 3
    /\ \E a \in DOMAIN cells :
          /\ distance(start, a) = 1
          /\ distance(a, goal) < distance(start, goal)
          /\ a # path[2]
          /\ cells[a].movement_cost > cells[path[2]].movement_cost

----------------------------------------------------------------------------
(* Properties of the shape of a line. *)

\* C24: every two consecutive elements of a.linedraw(b) are at hex distance
\* 1, and no hex occurs twice in the line.
C24_LineConnected ==
    call.op = "linedraw" =>
        /\ \A i \in 1..(Len(call.result) - 1) :
              distance(call.result[i], call.result[i + 1]) = 1
        /\ \A i, j \in 1..Len(call.result) : i # j => call.result[i] # call.result[j]

\* a line of four or more hexes has been drawn that leaves the straight
\* rows: no axis is constant along it
C24_Witness ==
    /\ call.op = "linedraw"
    /\ Len(call.result) >= 4
    /\ call.self.x # call.other.x
    /\ call.self.y # call.other.y
    /\ call.self.z # call.other.z

\* the sequence p reversed
Reversed(p) == [i \in 1..Len(p) |-> p[Len(p) + 1 - i]]

\* C25: a.has_line_of_sight(b, B) = b.has_line_of_sight(a, B) for every
\* blocker set B, b.linedraw(a) being a.linedraw(b) reversed.
C25_SightSymmetric ==
    call.op = "has_line_of_sight_both" =>
        /\ call.back = Reversed(call.line)
        /\ call.result = call.result_back

----------------------------------------------------------------------------
(* Properties of the rectangle in offset coordinates. *)

\* the coordinates at the FLAT_TOP offsets (col, row), 0 <= col < width and
\* 0 <= row < height
OffsetRectangle(width, height) ==
    {from_offset(col, row, "FLAT_TOP") : col \in 0..(width - 1), row \in 0..(height - 1)}

----------------------------------------------------------------------------
(* Properties of the construction of the state machine. *)

\* C28: a StateMachine constructed with initial_state = name starts with a
\* current state, the one of that name, and enter() has been called on it
\* once.
C28_InitialState ==
    call.op = "__init__" =>
        /\ current_state # None
        /\ call.initial_state \in DOMAIN states
        /\ call.calls = <<<<current_state, "enter">>>>

----------------------------------------------------------------------------
(* Properties of the order of exit and enter. *)

\* the calls of method made on instance so far
Calls(instance, method) ==
    Cardinality({i \in 1..Len(lifecycle) : lifecycle[i] = <<instance, method>>})

\* the instances entered and not yet exited
Active == {instance \in StateInstances : Calls(instance, "enter") > Calls(instance, "exit")}

\* C27: inside a successful set_state the exit of the previous current state
\* has run when current_state is replaced, and the new state is entered
\* after that; so the enter and exit calls alternate, each exit on the
\* instance entered last, at most one instance is entered and not exited at
\* any moment, and between calls that instance is current_state.
C27_Lifecycle ==
    /\ \A i \in 1..Len(lifecycle) :
          /\ i % 2 = 1 => lifecycle[i][2] = "enter"
          /\ i % 2 = 0 => lifecycle[i] = <<lifecycle[i - 1][1], "exit">>
    /\ Cardinality(Active) <= 1
    /\ \A instance \in StateInstances :
          Calls(instance, "enter") - Calls(instance, "exit") \in {0, 1}
    /\ machine_pc = 0 =>
          IF current_state = None THEN lifecycle = <<>> ELSE Active = {current_state}
    /\ machine_pc = 2 =>
          /\ current_state = call.before
          /\ Active = {}
    /\ machine_pc = 3 =>
          /\ current_state = states[call.state_name]
          /\ Active = {}

\* a second successful set_state is between its exit of the state entered
\* first and the replacement of current_state by another instance
C27_Witness ==
    /\ machine_pc = 2
    /\ lifecycle = <<<<current_state, "enter">>, <<current_state, "exit">>>>
    /\ states[call.state_name] # current_state

----------------------------------------------------------------------------
(* Properties of the calendar. *)

\* C29: from Calendar() or reset(), after any advance(d) calls with d >= 0,
\* 1 <= day <= 30, 1 <= month <= 12, year >= 1 and total_days =
\* (year - 1) * 360 + (month - 1) * 30 + (day - 1); advance(d) returns d, the
\* number of months it rolled over and the number of years it rolled over.
C29_Calendar ==
    /\ calendar.day \in 1..30
    /\ calendar.month \in 1..12
    /\ calendar.year >= 1
    /\ calendar.total_days =
          (calendar.year - 1) * 360 + (calendar.month - 1) * 30 + (calendar.day - 1)
    /\ call.op = "advance" =>
          /\ call.result[1] = call.days
          /\ call.result[2] =
                (calendar.total_days \div 30) - (call.before.total_days \div 30)
          /\ call.result[3] = calendar.year - call.before.year
          /\ call.result[3] =
                (calendar.total_days \div 360) - (call.before.total_days \div 360)

\* one advance from the middle of a month of the first year has rolled over
\* two years
C29_Witness ==
    /\ call.op = "advance"
    /\ call.before.month > 1
    /\ call.before.day > 1
    /\ call.result[3] = 2
    /\ call.result[2] >= 24
    /\ calendar.year = 3

====
